---- MODULE Spec2Model ----
(***************************************************************************)
(* A model of dace/frontend/fortran/fortran_parser.py: the AST_translator  *)
(* that lowers a normalized Fortran AST into a stateful dataflow graph     *)
(* (SDFG).  The translator's fields are the variables; every handler of    *)
(* the dispatch table is an operator from a translator record to a         *)
(* translator record, and every action applies one handler to a statement  *)
(* of the top-level program.                                               *)
(***************************************************************************)
EXTENDS Integers, Sequences, FiniteSets, TLC

VARIABLES
    sdfgs,                 \* the graphs: sdfgs[1] is the top-level graph, the others are nested
    last_sdfg_states,      \* self.last_sdfg_states: per graph, the current tail state
    last_loop_continues,   \* self.last_loop_continues: per graph
    last_loop_breaks,      \* self.last_loop_breaks: per graph
    name_mapping,          \* self.name_mapping: per graph, source name -> container name
    unallocated_arrays,    \* self.unallocated_arrays: the worklist of allocatable declarations
    views,                 \* self.views: the counter that names views
    last_call_expression,  \* self.last_call_expression: per graph, the call node whose argument
                           \* list is remembered (the list itself, not a copy), 0 if none
    call_args,             \* the AST's mutable part: per call node, its args and hasret
    raised,                \* the exception that aborted the translation, "" if none
    pc,                    \* the position of the driver
    contexts,              \* self.contexts: per graph NAME, the containers and constants
    module_vars,           \* self.module_vars: the names declared by modules
    registered_types,      \* self.registered_types: per derived type, its components
    program,               \* the AST: the top-level nodes handed to translate so far
    previous,              \* the graphs of an earlier lowering of the same AST, <<>> if none
    resolver,              \* create_sdfg_from_fortran_file_with_options: the corpus and the
                           \* locals of the module resolution
    at,                    \* the state the generated program is in when it is run
    mem                    \* the containers and symbols of the generated program when it is run

vars == <<sdfgs, last_sdfg_states, last_loop_continues, last_loop_breaks, name_mapping,
          unallocated_arrays, views, last_call_expression, call_args, raised, pc,
          contexts, module_vars, registered_types, program, previous, resolver, at, mem>>

(***************************************************************************)
(* Values                                                                  *)
(***************************************************************************)

\* Python's None where a state is expected (states are numbered from 1).
NoState == 0

\* The index of the top-level graph (self.globalsdfg).
globalsdfg == 1

\* Python's None where a name is expected.
NoName == ""

\* The unconditional guard of InterstateEdge().
Always == "1"

\* An empty SDFG named n.
SDFG(n) ==
    [name |-> n, states |-> <<>>, start_state |-> NoState, edges |-> <<>>,
     arrays |-> <<>>, symbols |-> {}, nodes |-> <<>>, memlets |-> <<>>]

\* InterstateEdge(): no guard, no assignment.
InterstateEdge ==
    [cond |-> Always, var |-> NoName, val |-> ""]

\* InterstateEdge(condition).
CondEdge(c) ==
    [InterstateEdge EXCEPT !.cond = c]

\* A guard that repeats the condition instead of negating it.
UnnegatedEdge(c) ==
    [InterstateEdge EXCEPT !.cond = c]

\* InterstateEdge("not (" + condition + ")"): the negation is syntactic.
NotCondEdge(c) ==
    [InterstateEdge EXCEPT !.cond = "not (" \o c \o ")"]

\* A transition that drops the assignment it is given.
PlainEdge(v, e) ==
    InterstateEdge

\* InterstateEdge(assignments={v: e}).
AssignEdge(v, e) ==
    [InterstateEdge EXCEPT !.var = v, !.val = e]

\* The local variables of subroutine2sdfg that its loops fill: they live in
\* the record the handlers thread, and die with the call.
NoLocals ==
    [ins |-> <<>>, outs |-> <<>>, view_list |-> <<>>, local_name |-> NoName,
     addedmemlets |-> <<>>, globalmemlets |-> <<>>, array_in_global |-> <<>>]

\* self.last_returns is never written: every lookup yields None.
last_returns(T, g) == NoState

\* raise: the first exception aborts the translation, later ones never happen.
Raise(T, e) ==
    IF T.raised = "" THEN [T EXCEPT !.raised = e] ELSE T

\* A statement after a raise never runs.
Step(T, T2) ==
    IF T.raised = "" THEN T2 ELSE T

\* if cond: raise e.
RaiseIf(T, cond, e) ==
    IF cond THEN Raise(T, e) ELSE T

(***************************************************************************)
(* Python dicts, in insertion order: sequences of [k, v] entries           *)
(***************************************************************************)

Keys(d) == {d[i].k : i \in 1..Len(d)}

\* d.get(k) with the default dflt.
Get(d, k, dflt) ==
    IF k \in Keys(d) THEN d[CHOOSE i \in 1..Len(d) : d[i].k = k].v ELSE dflt

\* d[k] = v.
Put(d, k, v) ==
    IF k \in Keys(d)
    THEN [i \in 1..Len(d) |-> IF d[i].k = k THEN [k |-> k, v |-> v] ELSE d[i]]
    ELSE Append(d, [k |-> k, v |-> v])

\* a.update(b) on a copy of a.
Update(a, b) ==
    LET RECURSIVE upd(_, _)
        upd(acc, i) == IF i > Len(b) THEN acc ELSE upd(Put(acc, b[i].k, b[i].v), i + 1)
    IN upd(a, 1)

\* list.index(x): the position of the first element equal to x, 0 when absent.
IndexOf(l, x) ==
    IF \E i \in 1..Len(l) : l[i] = x
    THEN CHOOSE i \in 1..Len(l) : l[i] = x /\ \A j \in 1..(i - 1) : l[j] # x
    ELSE 0

\* The elements of l that satisfy keep, in order.
Filter(l, keep(_)) ==
    LET RECURSIVE flt(_)
        flt(i) == IF i > Len(l) THEN <<>>
                  ELSE (IF keep(l[i]) THEN <<l[i]>> ELSE <<>>) \o flt(i + 1)
    IN flt(1)

(***************************************************************************)
(* The graph                                                               *)
(***************************************************************************)

\* sdfg.add_state(label): the new state's number is the number of states.
add_state(T, g, kind, line) ==
    Step(T, [T EXCEPT !.sdfgs[g].states = Append(@, [kind |-> kind, line |-> line])])

\* The state add_state creates next.
next_state(T, g) == Len(T.sdfgs[g].states) + 1

\* sdfg.add_edge(u, v, edge): both ends must be states.
add_edge(T, g, u, v, e) ==
    Step(T, IF u = NoState \/ v = NoState
            THEN Raise(T, "TypeError")
            ELSE [T EXCEPT !.sdfgs[g].edges =
                      Append(@, [src |-> u, dst |-> v, cond |-> e.cond,
                                 var |-> e.var, val |-> e.val])])

\* self.last_sdfg_states[sdfg] = s.
set_last_state(T, g, s) ==
    Step(T, [T EXCEPT !.last_sdfg_states[g] = s])

\* ast_utils.add_simple_state_to_sdfg: a new state linked from the tail, which
\* it becomes; with no tail it is the graph's start state.
add_simple_state_to_sdfg(T, g, kind, line) ==
    LET tail == T.last_sdfg_states[g]
        s == next_state(T, g)
    IN Step(T, [T EXCEPT !.sdfgs[g].states = Append(@, [kind |-> kind, line |-> line]),
                         !.sdfgs[g].start_state = IF tail = NoState THEN s ELSE @,
                         !.sdfgs[g].edges =
                             IF tail = NoState THEN @
                             ELSE Append(@, [src |-> tail, dst |-> s, cond |-> Always,
                                             var |-> NoName, val |-> ""]),
                         !.last_sdfg_states[g] = s])

\* dace.data._prod of the first n sizes.
RECURSIVE prod(_, _)
prod(sizes, n) ==
    IF n = 0 THEN 1 ELSE sizes[n] * prod(sizes, n - 1)

\* dace find_new_name: the name itself when free, else name_0, name_1, ...
RECURSIVE find_free(_, _, _)
find_free(name, names, n) ==
    IF (name \o "_" \o ToString(n)) \in names
    THEN find_free(name, names, n + 1)
    ELSE name \o "_" \o ToString(n)

\* sdfg._find_new_name(name): containers and symbols are taken.
find_new_name(T, g, name) ==
    LET taken_names == Keys(T.sdfgs[g].arrays) \cup T.sdfgs[g].symbols
    IN IF name \in taken_names THEN find_free(name, taken_names, 0) ELSE name

\* A data descriptor: dat.Scalar, dat.Array or a View.
Scalar(dtype, transient) ==
    [type |-> "Scalar", dtype |-> dtype, shape |-> <<>>, strides |-> <<>>,
     offset |-> <<>>, transient |-> transient]

Array(dtype, shape, strides, offset, transient) ==
    [type |-> "Array", dtype |-> dtype, shape |-> shape, strides |-> strides,
     offset |-> offset, transient |-> transient]

View(dtype, shape, strides, offset) ==
    [type |-> "View", dtype |-> dtype, shape |-> shape, strides |-> strides,
     offset |-> offset, transient |-> TRUE]

\* sdfg.add_datadesc(name, desc): an existing name is an error.
add_datadesc(T, g, name, desc) ==
    Step(T, IF name \in Keys(T.sdfgs[g].arrays)
            THEN Raise(T, "NameError")
            ELSE [T EXCEPT !.sdfgs[g].arrays = Append(@, [k |-> name, v |-> desc])])

\* sdfg.arrays.get(name); the default stands for None.
array_of(T, g, name) == Get(T.sdfgs[g].arrays, name, Scalar("", TRUE))

(***************************************************************************)
(* The normalized AST.  Every node is a record with the same fields; a     *)
(* class uses the fields it has and leaves the others at their default.    *)
(***************************************************************************)

\* An index of an Array_Subscript_Node: ParDecl_Node(type = "ALL"),
\* ParDecl_Node(type = "RANGE", range = [lo, hi]), an Int_Literal_Node or a Name_Node.
ParDecl_ALL == [k |-> "ALL", v |-> 0, e |-> 0, s |-> ""]

ParDecl_RANGE(lo, hi) == [k |-> "RANGE", v |-> lo, e |-> hi, s |-> ""]

Int_Literal_Node(n) == [k |-> "lit", v |-> n, e |-> n, s |-> ""]

Name_Node(n) == [k |-> "sym", v |-> 0, e |-> 0, s |-> n]

\* A variable occurrence: Name_Node (no indices) or Array_Subscript_Node.
Occ(name, indices) == [name |-> name, indices |-> indices]

NoOcc == Occ(NoName, <<>>)

\* An expression: an operand, or operand op operand.
Expr(l, op, r) == [l |-> l, op |-> op, r |-> r]

NoExpr == Expr("", "", "")

Node ==
    [class |-> "", line |-> 0, cond |-> NoExpr, body |-> <<>>, body_else |-> <<>>,
     lval |-> NoOcc, k |-> 0, reads |-> <<>>, init |-> NoExpr, iter |-> NoExpr,
     cid |-> 0, callee |-> NoName, name |-> NoName, type |-> "", sizes |-> <<>>,
     alloc |-> FALSE, target |-> NoName, ncalls |-> 0]

\* If_Stmt_Node(cond, body, body_else).
If_Stmt_Node(c, b, e) ==
    [Node EXCEPT !.class = "If", !.cond = c, !.body = b, !.body_else = e]

\* For_Stmt_Node(init: v = i, cond, iter: v = it, body).
For_Stmt_Node(v, i, c, it, b) ==
    [Node EXCEPT !.class = "For", !.lval = Occ(v, <<>>), !.init = i, !.cond = c,
                 !.iter = it, !.body = b]

Break_Node ==
    [Node EXCEPT !.class = "Break"]

\* BinOp_Node(lval = k + reads[1] + ... ), an assignment with no embedded call.
BinOp_Node(lv, k, reads) ==
    [Node EXCEPT !.class = "BinOp", !.lval = lv, !.k = k, !.reads = reads]

\* BinOp_Node(lval = callee(args)): the call node is cid, its args are call_args[cid].
BinOp_Call_Node(lv, callee, cid) ==
    [Node EXCEPT !.class = "BinOp", !.lval = lv, !.callee = callee, !.cid = cid,
                 !.ncalls = 1]

\* BinOp_Node(lval = f(reads) + g(reads) ...): n calls on the right-hand side,
\* the first of them to callee.
BinOp_Calls_Node(lv, callee, n, reads) ==
    [Node EXCEPT !.class = "BinOp", !.lval = lv, !.callee = callee, !.ncalls = n,
                 !.reads = reads]

\* Call_Expr_Node(callee, args) as a statement.
Call_Expr_Node(callee, cid) ==
    [Node EXCEPT !.class = "Call", !.callee = callee, !.cid = cid]

\* Var_Decl_Node(name, type, sizes, alloc); sizes = <<>> is sizes = None.
Var_Decl_Node(n, t, sz, al) ==
    [Node EXCEPT !.class = "VarDecl", !.name = n, !.type = t, !.sizes = sz, !.alloc = al]

\* Symbol_Decl_Node(name, type, init).
Symbol_Decl_Node(n, t, i) ==
    [Node EXCEPT !.class = "Symbol", !.name = n, !.type = t, !.init = i]

\* Pointer_Assignment_Stmt_Node(name_pointer => name_target).
Pointer_Assignment_Stmt_Node(p, t) ==
    [Node EXCEPT !.class = "Pointer", !.name = p, !.target = t]

\* Allocate_Stmt_Node with one allocation (name, shape_list).
Allocate_Stmt_Node(n, sz) ==
    [Node EXCEPT !.class = "Allocate", !.name = n, !.sizes = sz]

Write_Stmt_Node ==
    [Node EXCEPT !.class = "Write"]

\* Decl_Stmt_Node(vardecl): one declaration statement declaring several names.
Decl_Stmt_Node(vardecl) ==
    [Node EXCEPT !.class = "Decl", !.body = vardecl]

Symbol_Array_Decl_Node ==
    [Node EXCEPT !.class = "SymbolArray"]

\* Derived_Type_Def_Node(name, components): the components are declarations.
Derived_Type_Def_Node(n, components) ==
    [Node EXCEPT !.class = "DerivedType", !.name = n, !.body = components]

\* Line numbers: a statement's line identifies it; the statements of its
\* body and of its else-body get lines derived from its own.
RECURSIVE Number(_, _)
Number(node, l) ==
    [node EXCEPT !.line = l,
                 !.body = [j \in 1..Len(node.body) |-> Number(node.body[j], 10 * l + j)],
                 !.body_else = [j \in 1..Len(node.body_else) |->
                                   Number(node.body_else[j], 10 * l + 5 + j)]]

(***************************************************************************)
(* Names                                                                   *)
(***************************************************************************)

\* get_name_mapping_in_context: the top-level mapping updated with the local one.
get_name_mapping_in_context(T, g) ==
    IF g # globalsdfg
    THEN Update(T.name_mapping[globalsdfg], T.name_mapping[g])
    ELSE T.name_mapping[globalsdfg]

\* get_arrays_in_context: the top-level containers updated with the local ones.
get_arrays_in_context(T, g) ==
    IF g # globalsdfg
    THEN Update(T.sdfgs[globalsdfg].arrays, T.sdfgs[g].arrays)
    ELSE T.sdfgs[globalsdfg].arrays

\* ast_utils.fortrantypes2dacetypes: the primitive-type table.
fortrantypes2dacetypes == {"INTEGER", "DOUBLE", "REAL"}

\* get_dace_type: a type outside the table (and the registered types) is an error.
get_dace_type(T, type) ==
    Step(T, IF type \in fortrantypes2dacetypes THEN T ELSE Raise(T, "ValueError: Unknown type"))

\* ProcessedWriter.write_code on an operand: a name that is mapped is written
\* as its container name.
write_name(T, g, n) ==
    Get(T.name_mapping[g], n, n)

\* ProcessedWriter.write_code(expr): the text of the expression.
write_code(T, g, e) ==
    IF e.op = "" THEN write_name(T, g, e.l)
    ELSE write_name(T, g, e.l) \o " " \o e.op \o " " \o write_name(T, g, e.r)

(***************************************************************************)
(* Declarations                                                            *)
(***************************************************************************)

\* self.transient_mode outside the start-point declarations.
transient_mode == TRUE

\* ast_utils.Context(name): no containers, no constants.
Context == [containers |-> <<>>, constants |-> <<>>]

\* self.contexts[sdfg.name], created when it is missing.
context_of(T, g) == Get(T.contexts, T.sdfgs[g].name, Context)

\* The context is created when missing, and the name joins its containers
\* unless it is one already.
add_container_to_context(T, g, name) ==
    Step(T, [T EXCEPT !.contexts =
                 Put(@, T.sdfgs[g].name,
                     [context_of(T, g) EXCEPT !.containers =
                          IF \E i \in 1..Len(@) : @[i] = name THEN @ ELSE Append(@, name)])])

\* The offsets of a declared array: -1 per dimension.
decl_offsets(sizes) == [i \in 1..Len(sizes) |-> -1]

\* strides = [dat._prod(sizes[:i]) for i in range(len(sizes))].
decl_strides(sizes) == [i \in 1..Len(sizes) |-> prod(sizes, i - 1)]

\* The descriptor of a declaration with the given sizes (<<>>: a scalar).
decl_desc(dtype, sizes, transient) ==
    IF sizes = <<>> THEN Scalar(dtype, transient)
    ELSE Array(dtype, sizes, decl_strides(sizes), decl_offsets(sizes), transient)

vardecl2sdfg(node, g, T) ==
    LET uname == find_new_name(T, g, node.name)
        declare(T1) ==
            IF node.alloc
            THEN Step(T1, [T1 EXCEPT !.unallocated_arrays =
                               Append(@, [name |-> node.name, dtype |-> node.type,
                                          sdfg |-> g, transient |-> transient_mode])])
            ELSE IF Get(T1.name_mapping[g], node.name, NoName) # NoName THEN T1
            ELSE IF node.name \in T1.sdfgs[g].symbols THEN T1
            ELSE add_container_to_context(
                     add_datadesc(
                         Step(T1, [T1 EXCEPT !.name_mapping[g] = Put(@, node.name, uname)]),
                         g, uname, decl_desc(node.type, node.sizes, transient_mode)),
                     g, node.name)
    IN declare(get_dace_type(T, node.type))

\* derivedtypedef2sdfg: every component becomes a descriptor, an Array when
\* it has sizes and a Scalar otherwise; the structure is registered under
\* the type's name.  A component of an unknown type raises.
RECURSIVE derived_components(_, _, _, _)
derived_components(components, name, T, dict_setup) ==
    IF T.raised # "" THEN T
    ELSE IF components = <<>>
    THEN [T EXCEPT !.registered_types = Put(@, name, dict_setup)]
    ELSE LET k == Head(components)
         IN derived_components(
                Tail(components), name, get_dace_type(T, k.type),
                Put(dict_setup, k.name,
                    IF k.sizes # <<>>
                    THEN Array(k.type, k.sizes, decl_strides(k.sizes),
                               decl_offsets(k.sizes), FALSE)
                    ELSE Scalar(k.type, FALSE)))

derivedtypedef2sdfg(node, g, T) ==
    derived_components(node.body, node.name, T, <<>>)

\* list.remove(x): the first element equal to x goes.
Remove(l, x) ==
    LET i == IndexOf(l, x)
    IN IF i = 0 THEN l ELSE SubSeq(l, 1, i - 1) \o SubSeq(l, i + 1, Len(l))

\* The loop of pointerassignment2sdfg over self.unallocated_arrays, which it
\* shrinks while iterating: idx is the iterator's position.  The flag `found`
\* is never set (the loop assigns `fount`), so the duplicate error cannot fire.
RECURSIVE pointer_loop(_, _, _)
pointer_loop(l, idx, pname) ==
    IF idx > Len(l) THEN l
    ELSE IF l[idx].name = pname THEN pointer_loop(Remove(l, l[idx]), idx + 1, pname)
    ELSE pointer_loop(l, idx + 1, pname)

pointerassignment2sdfg(node, g, T) ==
    Step(T, IF node.target \notin Keys(T.name_mapping[g])
            THEN Raise(T, "ValueError: Unknown variable " \o node.target)
            ELSE [T EXCEPT !.unallocated_arrays = pointer_loop(@, 1, node.name),
                           !.name_mapping[g] =
                               Put(@, node.name, Get(T.name_mapping[g], node.target, NoName))])

\* The loop of allocate2sdfg over self.unallocated_arrays for one allocation:
\* every entry the iterator meets with the same name and graph is removed and
\* materialized under a new container name.
RECURSIVE allocate_loop(_, _, _, _)
allocate_loop(node, g, T, idx) ==
    IF T.raised # "" \/ idx > Len(T.unallocated_arrays) THEN T
    ELSE LET j == T.unallocated_arrays[idx]
             uname == find_new_name(T, g, node.name)
         IN IF j.name = node.name /\ j.sdfg = g
            THEN allocate_loop(
                     node, g,
                     add_datadesc(
                         add_container_to_context(
                             [T EXCEPT !.unallocated_arrays = Remove(@, j),
                                       !.name_mapping[g] = Put(@, node.name, uname)],
                             g, node.name),
                         g, uname, decl_desc(j.dtype, node.sizes, j.transient)),
                     idx + 1)
            ELSE allocate_loop(node, g, T, idx + 1)

allocate2sdfg(node, g, T) ==
    allocate_loop(node, g, T, 1)

\* write2sdfg: not implemented, raises.
write2sdfg(node, g, T) ==
    Raise(T, "NotImplementedError")

\* symbolarray2sdfg RETURNS a NotImplementedError instead of raising it.
symbolarray2sdfg(node, g, T) ==
    T

\* The literals an initializer can be.
Literals == {"1", "2", "3"}

\* symbol2sdfg: the constant table of the graph's context, the symbol, and a
\* state whose incoming edge assigns the initial value.
symbol2sdfg(node, g, T) ==
    LET c == context_of(T, g)
        unknown == node.name \notin Keys(c.constants)
        literal == node.init.op = "" /\ node.init.l \in Literals
        name == node.init # NoExpr /\ node.init.op = "" /\ node.init.l \notin Literals
        constants ==
            IF unknown /\ literal THEN Put(c.constants, node.name, node.init.l)
            ELSE IF unknown /\ name
            THEN Put(c.constants, node.name, Get(c.constants, node.init.l, ""))
            ELSE c.constants
        record(T1) ==
            RaiseIf([T1 EXCEPT !.contexts =
                         Put(@, T1.sdfgs[g].name, [c EXCEPT !.constants = constants])],
                    unknown /\ name /\ node.init.l \notin Keys(c.constants), "KeyError")
        begin(T1) ==
            IF T1.last_sdfg_states[g] = NoState
            THEN Step(T1, [T1 EXCEPT !.sdfgs[g].states =
                                         Append(@, [kind |-> "SDFGbegin", line |-> 0]),
                                     !.sdfgs[g].start_state = next_state(T1, g),
                                     !.last_sdfg_states[g] = next_state(T1, g)])
            ELSE T1
        assign_init(T1) ==
            IF node.init = NoExpr THEN T1
            ELSE set_last_state(
                     add_edge(add_state(T1, g, "Dummystate", node.line), g,
                              T1.last_sdfg_states[g], next_state(T1, g),
                              AssignEdge(node.name, write_code(T1, g, node.init))),
                     g, next_state(T1, g))
        add_symbol(T1) ==
            IF node.name \in T1.sdfgs[g].symbols THEN T1
            ELSE assign_init(begin(Step(T1, [T1 EXCEPT !.sdfgs[g].symbols =
                                                  @ \cup {node.name}])))
    IN add_symbol(get_dace_type(record(T), node.type))

(***************************************************************************)
(* Control flow                                                            *)
(***************************************************************************)

RECURSIVE translate(_, _, _)
RECURSIVE translate_list(_, _, _)
RECURSIVE ifstmt2sdfg(_, _, _)
RECURSIVE forstmt2sdfg(_, _, _)
RECURSIVE binop2sdfg(_, _, _)
RECURSIVE call2sdfg(_, _, _)
RECURSIVE subroutine2sdfg(_, _, _)

\* translate on a list, basicblock2sdfg, declstmt2sdfg: the elements in order.
translate_list(l, g, T) ==
    IF l = <<>> \/ T.raised # "" THEN T
    ELSE translate_list(Tail(l), g, translate(Head(l), g, T))

\* The test that decides whether the then-branch is linked to the merge state.
tail_is_jump(T, g) ==
    T.last_sdfg_states[g] \in
        {T.last_loop_breaks[g], T.last_loop_continues[g], last_returns(T, g)}

\* ifstmt2sdfg.  The states are numbered in creation order: BeginIf, GuardIf
\* and BodyIfStart before the then-body; MergeState (final_substate) and
\* BodyIfEnd after it; BodyElseStart before and BodyElseEnd after the else-body.
ifstmt2sdfg(node, g, T) ==
    LET begin_state == next_state(T, g)
        guard_substate == begin_state + 1
        body_ifstart_state == begin_state + 2
        condition == write_code(T, g, node.cond)
        enter ==
            set_last_state(
                add_state(
                    add_edge(
                        add_state(add_simple_state_to_sdfg(T, g, "BeginIf", node.line),
                                  g, "GuardIf", node.line),
                        g, begin_state, guard_substate, InterstateEdge),
                    g, "BodyIfStart", node.line),
                g, body_ifstart_state)
        link_then(T1, final_substate) ==
            IF ~tail_is_jump(T1, g)
            THEN add_edge(add_simple_state_to_sdfg(T1, g, "BodyIfEnd", node.line),
                          g, next_state(T1, g), final_substate, InterstateEdge)
            ELSE T1
        merge(T1) ==
            link_then(
                add_edge(add_state(T1, g, "MergeState", node.line),
                         g, guard_substate, body_ifstart_state, CondEdge(condition)),
                next_state(T1, g))
        link_else(T1, final_substate, body_elsestart_state) ==
            add_edge(
                add_edge(add_simple_state_to_sdfg(T1, g, "BodyElseEnd", node.line),
                         g, guard_substate, body_elsestart_state, NotCondEdge(condition)),
                g, next_state(T1, g), final_substate, InterstateEdge)
        else_branch(T1, final_substate) ==
            IF Len(node.body_else) > 0
            THEN link_else(
                     translate_list(
                         node.body_else, g,
                         set_last_state(add_state(T1, g, "BodyElseStart", node.line),
                                        g, next_state(T1, g))),
                     final_substate, next_state(T1, g))
            ELSE add_edge(T1, g, guard_substate, final_substate, NotCondEdge(condition))
        leave(T1) ==
            set_last_state(else_branch(merge(T1), next_state(T1, g)), g, next_state(T1, g))
    IN leave(translate_list(node.body, g, enter))

\* The name the loop variable is assigned under: a symbol of the graph, else
\* the graph's own name mapping; the top-level mapping is not consulted.
loop_iter_name(T, g, v) ==
    IF v \in T.sdfgs[g].symbols THEN v
    ELSE Get(T.name_mapping[g], v, NoName)

\* forstmt2sdfg.  The states are numbered in creation order: BeginFOR,
\* GuardFOR, MergeFOR (final_substate), BeginLoopFOR, EndLoopFOR.
forstmt2sdfg(node, g, T) ==
    LET begin_state == next_state(T, g)
        guard_substate == begin_state + 1
        final_substate == begin_state + 2
        begin_loop_state == begin_state + 3
        end_loop_state == begin_state + 4
        iter_name == loop_iter_name(T, g, node.lval.name)
        condition == write_code(T, g, node.cond)
        increment == write_code(T, g, node.iter)
        declare ==
            RaiseIf(
                set_last_state(
                    add_state(
                        add_state(add_simple_state_to_sdfg(T, g, "BeginFOR", node.line),
                                  g, "GuardFOR", node.line),
                        g, "MergeFOR", node.line),
                    g, final_substate),
                iter_name = NoName, "ValueError: Unknown variable " \o node.lval.name)
        enter ==
            set_last_state(
                add_state(
                    add_state(
                        add_edge(declare, g, begin_state, guard_substate,
                                 AssignEdge(iter_name, write_code(T, g, node.init))),
                        g, "BeginLoopFOR", node.line),
                    g, "EndLoopFOR", node.line),
                g, begin_loop_state)
        continue(T1) ==
            Step(T1, [T1 EXCEPT !.last_loop_continues[g] = final_substate])
        leave(T1) ==
            set_last_state(
                add_edge(
                    add_edge(
                        add_edge(
                            add_edge(T1, g, T1.last_sdfg_states[g], end_loop_state,
                                     InterstateEdge),
                            g, guard_substate, begin_loop_state, CondEdge(condition)),
                        g, end_loop_state, guard_substate, AssignEdge(iter_name, increment)),
                    g, guard_substate, final_substate, NotCondEdge(condition)),
                g, final_substate)
    IN leave(translate_list(node.body, g, continue(enter)))

\* break2sdfg: the tail becomes the break source and gets an edge to the
\* registered loop target.
break2sdfg(node, g, T) ==
    LET tail == T.last_sdfg_states[g]
    IN Step(T, IF tail = NoState THEN Raise(T, "KeyError")
               ELSE add_edge([T EXCEPT !.last_loop_breaks[g] = tail], g, tail,
                             T.last_loop_continues[g], InterstateEdge))

(***************************************************************************)
(* Dataflow: compute units, nested-graph nodes and data-movement edges     *)
(***************************************************************************)

\* A memlet subset: "" (none given, the whole container), "0", Python's None
\* (get_memlet_range fell off its loop), or a Range of (begin, end) pairs;
\* a pair with s # "" is the symbolic point s.
Whole == [kind |-> "whole", r |-> <<>>]

Zero == [kind |-> "zero", r |-> <<>>]

NoneSubset == [kind |-> "none", r |-> <<>>]

Range(r) == [kind |-> "range", r |-> r]

\* One (begin, end, 1) entry of a Range.
Dim(b, e) == [b |-> b, e |-> e, s |-> ""]

\* The entry (i, i, 1) for the index i of an Array_Subscript_Node.
Point(i) == [b |-> i.v, e |-> i.v, s |-> i.s]

\* A call argument: Name_Node, Array_Subscript_Node or a literal.  Nodes
\* compare by their fields (call2sdfg resolves a callee by comparing the
\* call's name node with the definitions' name nodes).
\* value is the literal's value.
Arg(kind, name, indices, value) ==
    [kind |-> kind, name |-> name, indices |-> indices, value |-> value]

\* The occurrence o as a call argument.
OccArg(o) ==
    Arg(IF o.indices = <<>> THEN "name" ELSE "subscript", o.name, o.indices, 0)

\* A node of a state: a tasklet or a nested SDFG.
DfNode(state, kind, line, ins, outs, sdfg, code) ==
    [state |-> state, kind |-> kind, line |-> line, ins |-> ins, outs |-> outs,
     sdfg |-> sdfg, code |-> code]

NoCode == [k |-> 0, ins |-> <<>>, outs |-> <<>>]

add_node(T, g, n) ==
    Step(T, [T EXCEPT !.sdfgs[g].nodes = Append(@, n)])

\* The node add_node creates next.
next_node(T, g) == Len(T.sdfgs[g].nodes) + 1

\* A data-movement edge.  dir is "in" (container -> connector of node),
\* "out" (connector of node -> container), "toview" (base -> view) or
\* "fromview" (view -> base); other is the subset on the view's side.
Memlet(state, dir, data, node, conn, subset, view, other) ==
    [state |-> state, dir |-> dir, data |-> data, node |-> node, conn |-> conn,
     subset |-> subset, view |-> view, other |-> other]

add_memlet(T, g, m) ==
    Step(T, [T EXCEPT !.sdfgs[g].memlets = Append(@, m)])

\* ast_utils.add_memlet_read(substate, var_name, node, dest_conn, memlet_range).
add_memlet_read(T, g, state, var_name, node, conn, subset) ==
    add_memlet(T, g, Memlet(state, "in", var_name, node, conn, subset, NoName, Whole))

\* ast_utils.add_memlet_write(substate, var_name, node, source_conn, memlet_range).
add_memlet_write(T, g, state, var_name, node, conn, subset) ==
    add_memlet(T, g, Memlet(state, "out", var_name, node, conn, subset, NoName, Whole))

\* The shape generate_memlet looks at: the local container, else the top-level one.
memlet_shape(T, g, name) ==
    IF Get(T.name_mapping[g], name, NoName) # NoName
    THEN array_of(T, g, Get(T.name_mapping[g], name, NoName)).shape
    ELSE array_of(T, globalsdfg, Get(T.name_mapping[globalsdfg], name, NoName)).shape

\* ast_utils.generate_memlet(op, sdfg, self): "0" for a one-element array,
\* else one entry per dimension: the index where op gives one, else 1..size.
generate_memlet(T, g, o) ==
    LET shape == memlet_shape(T, g, o.name)
    IN IF Len(shape) = 1 /\ shape[1] = 1 THEN Zero
       ELSE Range([d \in 1..Len(shape) |->
                      IF d > Len(o.indices) \/ o.indices[d].k = "ALL" THEN Dim(1, shape[d])
                      ELSE IF o.indices[d].k = "RANGE"
                      THEN Dim(o.indices[d].v, o.indices[d].e)
                      ELSE Point(o.indices[d])])

\* Whether generate_memlet raises: the name is mapped nowhere.
generate_memlet_fails(T, g, o) ==
    Get(T.name_mapping[g], o.name, NoName) = NoName
    /\ Get(T.name_mapping[globalsdfg], o.name, NoName) = NoName

\* get_memlet_range(sdfg, variables, var_name, var_name_tasklet).
get_memlet_range(T, g, variables, var_name, var_name_tasklet) ==
    LET var == Get(get_arrays_in_context(T, g), var_name, Scalar("", TRUE))
        hit == {i \in 1..Len(variables) : variables[i].name = var_name_tasklet}
        first == CHOOSE i \in hit : \A j \in hit : i <= j
    IN IF Len(var.shape) = 0 THEN Whole
       ELSE IF Len(var.shape) = 1 /\ var.shape[1] = 1 THEN Zero
       ELSE IF hit = {} THEN NoneSubset
       ELSE generate_memlet(T, g, variables[first])

\* The procedures with a name of the mathematical library.
math_intrinsics == {"sqrt", "exp", "pow", "max", "min", "abs", "tanh"}

\* The procedures binop2sdfg keeps inside the compute unit.
intrinsics == {"sqrt", "exp", "pow", "max", "min", "abs", "tanh", "__dace_epsilon"}

\* The number of times x occurs in l: list.count.
Count(l, x) == Cardinality({i \in 1..Len(l) : l[i] = x})

\* A loop over the read occurrences that gives every container one port,
\* whatever the number of its occurrences.
RECURSIVE inputs_once(_, _, _, _, _)
inputs_once(T, g, reads, names, ports) ==
    IF reads = <<>> THEN [names |-> names, ports |-> ports]
    ELSE LET i == Head(reads)
             mapped_name == Get(get_name_mapping_in_context(T, g), i.name, NoName)
             take == /\ i.name \notin T.sdfgs[g].symbols
                     /\ mapped_name \in Keys(get_arrays_in_context(T, g))
                     /\ Count(names, mapped_name) = 0
         IN IF take
            THEN inputs_once(T, g, Tail(reads), Append(names, mapped_name),
                             Append(ports, i.name \o "_0_in"))
            ELSE inputs_once(T, g, Tail(reads), names, ports)

\* The loop of binop2sdfg over the read occurrences: the containers read and
\* the input ports, named <source name>_<count>_in.
RECURSIVE binop_inputs(_, _, _, _, _)
binop_inputs(T, g, reads, names, ports) ==
    IF reads = <<>> THEN [names |-> names, ports |-> ports]
    ELSE LET i == Head(reads)
             mapped_name == Get(get_name_mapping_in_context(T, g), i.name, NoName)
             take == i.name \notin T.sdfgs[g].symbols
                     /\ mapped_name \in Keys(get_arrays_in_context(T, g))
         IN IF take
            THEN binop_inputs(T, g, Tail(reads), Append(names, mapped_name),
                              Append(ports, i.name \o "_" \o ToString(Count(names, mapped_name))
                                               \o "_in"))
            ELSE binop_inputs(T, g, Tail(reads), names, ports)

\* add_memlet_read for every (container, port) pair of zip(names, ports).
RECURSIVE binop_read_memlets(_, _, _, _, _, _, _)
binop_read_memlets(T, g, state, tasklet, variables, names, ports) ==
    IF names = <<>> \/ ports = <<>> THEN T
    ELSE binop_read_memlets(
             add_memlet_read(T, g, state, Head(names), tasklet, Head(ports),
                             get_memlet_range(T, g, variables, Head(names), Head(ports))),
             g, state, tasklet, variables, Tail(names), Tail(ports))

\* add_memlet_write for every triple of zip(names, names_tasklet, names_changed).
RECURSIVE binop_write_memlets(_, _, _, _, _, _, _, _)
binop_write_memlets(T, g, state, tasklet, variables, names, names_tasklet, changed) ==
    IF names = <<>> \/ names_tasklet = <<>> \/ changed = <<>> THEN T
    ELSE binop_write_memlets(
             add_memlet_write(T, g, state, Head(names), tasklet, Head(changed),
                              get_memlet_range(T, g, variables, Head(names),
                                               Head(names_tasklet))),
             g, state, tasklet, variables, Tail(names), Tail(names_tasklet), Tail(changed))

\* The symbols among the indices of an occurrence.
index_symbols(indices) ==
    LET idx == Filter(indices, LAMBDA i : i.k = "sym")
    IN [j \in 1..Len(idx) |-> Occ(idx[j].s, <<>>)]

\* Every read occurrence followed by the symbols that index it.
RECURSIVE reads_with_indices(_)
reads_with_indices(reads) ==
    IF reads = <<>> THEN <<>>
    ELSE <<Head(reads)>> \o index_symbols(Head(reads).indices)
         \o reads_with_indices(Tail(reads))

\* The reads FindInputs finds in an assignment: the symbols that index the
\* target, then the occurrences of the right-hand side.
FindInputs(node) ==
    index_symbols(node.lval.indices) \o reads_with_indices(node.reads)

\* The writes FindOutputs finds in an assignment: its target.
FindOutputs(node) == <<node.lval>>

\* binop2sdfg on an assignment whose embedded call is not an intrinsic: the
\* target is appended to the call node's arguments, in the AST, and the call
\* is lowered instead.
binop_call(node, g, T) ==
    call2sdfg([node EXCEPT !.class = "Call"], g,
              [T EXCEPT !.call_args[node.cid].args = Append(@, OccArg(node.lval)),
                        !.call_args[node.cid].hasret = TRUE])

\* An assignment whose target is taken for no container: nothing is written.
no_outputs(T, g, o) == <<>>

\* The container the target of an assignment is written under, if any.
binop_outputs(T, g, o) ==
    LET o_mapped == Get(get_name_mapping_in_context(T, g), o.name, NoName)
    IN IF o_mapped \in Keys(get_arrays_in_context(T, g)) THEN <<o_mapped>> ELSE <<>>

\* The state and the tasklet of an assignment with the inputs ins and the
\* outputs output_names, and the edges of the tasklet.
add_tasklet(node, g, T, ins, output_names) ==
    LET output_names_tasklet == [i \in 1..Len(output_names) |-> node.lval.name]
        output_names_changed == [i \in 1..Len(output_names) |-> output_names[i] \o "_out"]
    IN binop_write_memlets(
           binop_read_memlets(
               add_node(add_simple_state_to_sdfg(T, g, "_state_l", node.line), g,
                        DfNode(next_state(T, g), "tasklet", node.line, ins.ports,
                               output_names_changed, 0,
                               [k |-> node.k, ins |-> ins.ports,
                                outs |-> output_names_changed])),
               g, next_state(T, g), next_node(T, g), FindInputs(node), ins.names, ins.ports),
           g, next_state(T, g), next_node(T, g), FindOutputs(node), output_names,
           output_names_tasklet, output_names_changed)

\* binop2sdfg on any other assignment: one state holding one tasklet.
binop_tasklet(node, g, T) ==
    add_tasklet(node, g, T, binop_inputs(T, g, FindInputs(node), <<>>, <<>>),
                binop_outputs(T, g, FindOutputs(node)[1]))

binop2sdfg(node, g, T) ==
    IF node.ncalls = 1 /\ node.callee \notin intrinsics
    THEN binop_call(node, g, T)
    ELSE binop_tasklet(node, g, T)

(***************************************************************************)
(* Calls                                                                   *)
(***************************************************************************)

\* A procedure definition (Subroutine_Subprogram_Node or a function):
\* args are the formal names, specs the declarations of its specification
\* part, body its execution part (has_exec = FALSE: execution_part is None).
Procedure(kind, name, args, void, has_exec, specs, body) ==
    [kind |-> kind, name |-> name, args |-> args, void |-> void, has_exec |-> has_exec,
     specs |-> specs, body |-> body, uses |-> <<>>, line |-> 90]

\* The statements the sample programs are made of.
\* x = 1
assign == BinOp_Node(Occ("x", <<>>), 1, <<>>)

\* x > 0
cond == Expr("x", ">", "0")

\* do i = 1, 2 ... end do, as a For_Stmt_Node: i = 1; i < 3; i = i + 1.
loop(b) == For_Stmt_Node("i", Expr("1", "", ""), Expr("i", "<", "3"), Expr("i", "+", "1"), b)

\* subroutine scale(p): p = p + 1, on an array formal.
proc_scale ==
    Procedure("subroutine", "scale", <<"p">>, TRUE, TRUE,
              <<Decl_Stmt_Node(<<Var_Decl_Node("p", "DOUBLE", <<2>>, FALSE)>>)>>,
              <<Number(BinOp_Node(Occ("p", <<>>), 1, <<Occ("p", <<>>)>>), 91)>>)

\* subroutine add(n, p, q): q = n + p.
proc_add ==
    Procedure("subroutine", "add", <<"n", "p", "q">>, TRUE, TRUE,
              <<Decl_Stmt_Node(<<Var_Decl_Node("n", "INTEGER", <<>>, FALSE),
                                 Var_Decl_Node("p", "DOUBLE", <<>>, FALSE),
                                 Var_Decl_Node("q", "DOUBLE", <<>>, FALSE)>>)>>,
              <<Number(BinOp_Node(Occ("q", <<>>), 0, <<Occ("n", <<>>), Occ("p", <<>>)>>), 91)>>)

\* function f(p), as the subroutine f(p, f_ret): f_ret = p.
proc_f ==
    Procedure("subroutine", "f", <<"p", "f_ret">>, FALSE, TRUE, <<>>,
              <<Number(BinOp_Node(Occ("f_ret", <<>>), 0, <<Occ("p", <<>>)>>), 91)>>)

\* subroutine empty(p) with no execution part.
proc_empty ==
    Procedure("subroutine", "empty", <<"p">>, TRUE, FALSE, <<>>, <<>>)

\* A procedure with one formal whose result type is not Void: the receiver of
\* its result is one argument more than it has formals.
proc_g ==
    Procedure("subroutine", "g", <<"p">>, FALSE, TRUE, <<>>,
              <<Number(BinOp_Node(Occ("p", <<>>), 3, <<>>), 91)>>)

\* subroutine count(): a loop over i, which the procedure does not declare.
proc_count ==
    Procedure("subroutine", "count", <<>>, TRUE, TRUE, <<>>,
              <<Number(loop(<<assign>>), 91)>>)

\* subroutine branch(p): if (x > 0) then p = 1 else p = 2.
proc_branch ==
    Procedure("subroutine", "branch", <<"p">>, TRUE, TRUE, <<>>,
              <<Number(If_Stmt_Node(cond, <<BinOp_Node(Occ("p", <<>>), 1, <<>>)>>,
                                    <<BinOp_Node(Occ("p", <<>>), 2, <<>>)>>), 91)>>)

\* subroutine whole(): call scale(d), d a container of the top-level graph.
proc_whole ==
    Procedure("subroutine", "whole", <<>>, TRUE, TRUE, <<>>,
              <<Number(Call_Expr_Node("scale", 16), 91)>>)

\* subroutine part(): call scale(a(1, :)), a a container of the top-level graph.
proc_part ==
    Procedure("subroutine", "part", <<>>, TRUE, TRUE, <<>>,
              <<Number(Call_Expr_Node("scale", 17), 91)>>)

\* subroutine fetch(p): p = mv, mv a variable of a module.
proc_fetch ==
    Procedure("subroutine", "fetch", <<"p">>, TRUE, TRUE, <<>>,
              <<Number(BinOp_Node(Occ("p", <<>>), 0, <<Occ("mv", <<>>)>>), 91)>>)

\* subroutine bump(): mv = mv + 1.
proc_bump ==
    Procedure("subroutine", "bump", <<>>, TRUE, TRUE, <<>>,
              <<Number(BinOp_Node(Occ("mv", <<>>), 1, <<Occ("mv", <<>>)>>), 91)>>)

\* subroutine store(p): mv = p.
proc_store ==
    Procedure("subroutine", "store", <<"p">>, TRUE, TRUE, <<>>,
              <<Number(BinOp_Node(Occ("mv", <<>>), 0, <<Occ("p", <<>>)>>), 91)>>)

\* subroutine via(p): call fetch(p), mv a container of the top-level graph only.
proc_via ==
    Procedure("subroutine", "via", <<"p">>, TRUE, TRUE, <<>>,
              <<Number(Call_Expr_Node("fetch", 23), 91)>>)

\* subroutine peek(p, q): q = p, p is read only.
proc_peek ==
    Procedure("subroutine", "peek", <<"p", "q">>, TRUE, TRUE, <<>>,
              <<Number(BinOp_Node(Occ("q", <<>>), 0, <<Occ("p", <<>>)>>), 91)>>)

\* subroutine fill(p): p = 1, p is written only.
proc_fill ==
    Procedure("subroutine", "fill", <<"p">>, TRUE, TRUE, <<>>,
              <<Number(BinOp_Node(Occ("p", <<>>), 1, <<>>), 91)>>)

\* self.top_level: the definitions call2sdfg searches, in its search order.
top_level ==
    <<proc_scale, proc_add, proc_f, proc_empty, proc_g, proc_count, proc_branch,
      proc_whole, proc_part, proc_fetch, proc_bump, proc_store, proc_via,
      proc_peek, proc_fill>>

\* The names of the Name_Nodes below a call node: the callee, the arguments
\* and the symbols that index them.
RECURSIVE arg_names(_)
arg_names(args) ==
    IF args = <<>> THEN <<>>
    ELSE LET a == Head(args)
             idx == index_symbols(a.indices)
         IN (IF a.kind = "literal" THEN <<>> ELSE <<a.name>>)
            \o [j \in 1..Len(idx) |-> idx[j].name] \o arg_names(Tail(args))

\* The loop of call2sdfg over used_vars and sdfg.arrays for a library call.
RECURSIVE ext_ports(_, _, _, _, _)
ext_ports(T, g, used, callee, acc) ==
    IF used = <<>> THEN acc
    ELSE LET i == Head(used)
             j == Get(T.name_mapping[g], i, NoName)
             elem == array_of(T, g, j)
             scalar == Len(elem.shape) = 0 \/ (Len(elem.shape) = 1 /\ elem.shape[1] = 1)
             isout == ~scalar /\ callee \notin {"fprintf", "printf"}
             hit == j \in Keys(T.sdfgs[g].arrays) /\ Count(acc.input_names, j) = 0
             acc2 == [input_names |-> Append(acc.input_names, j),
                      input_names_tasklet |->
                          IF Count(acc.input_names_tasklet, i) = 0
                          THEN Append(acc.input_names_tasklet, i)
                          ELSE acc.input_names_tasklet,
                      output_names |->
                          IF isout THEN Append(acc.output_names, j) ELSE acc.output_names,
                      output_names_tasklet |->
                          IF isout THEN Append(acc.output_names_tasklet, i)
                          ELSE acc.output_names_tasklet]
         IN ext_ports(T, g, Tail(used), callee, IF hit THEN acc2 ELSE acc)

\* The state, the tasklet and the edges of a library call with the ports p;
\* the receiver of the result, when there is one, is read and written.
library_tasklet(node, g, T, hasret, retval, used_vars, p) ==
    LET output_names_changed ==
            [i \in 1..Len(p.output_names_tasklet) |-> p.output_names_tasklet[i] \o "_out"]
        used_occ == [i \in 1..Len(used_vars) |-> Occ(used_vars[i], <<>>)]
        rmapped == Get(T.name_mapping[g], retval.name, NoName)
        receive(T1) ==
            IF ~hasret THEN T1
            ELSE IF rmapped = NoName THEN Raise(T1, "KeyError")
            ELSE add_memlet_write(
                     add_memlet_read(T1, g, next_state(T, g), rmapped, next_node(T, g),
                                     retval.name, Zero),
                     g, next_state(T, g), rmapped, next_node(T, g), retval.name \o "_out",
                     Zero)
    IN binop_write_memlets(
           binop_read_memlets(
               receive(
                   add_node(add_simple_state_to_sdfg(T, g, "_state", node.line), g,
                            DfNode(next_state(T, g), "tasklet", node.line,
                                   p.input_names_tasklet
                                       \o (IF hasret THEN <<retval.name>> ELSE <<>>),
                                   output_names_changed
                                       \o (IF hasret THEN <<retval.name \o "_out">> ELSE <<>>),
                                   0, NoCode))),
               g, next_state(T, g), next_node(T, g), used_occ, p.input_names,
               p.input_names_tasklet),
           g, next_state(T, g), next_node(T, g), used_occ, p.output_names,
           p.output_names_tasklet, output_names_changed)

\* call2sdfg for a callee that is not a known procedure: one state with one
\* tasklet whose body is the call.  A receiver appended by binop2sdfg is
\* popped from the call node's arguments again.
call_library(node, g, T) ==
    LET args0 == T.call_args[node.cid].args
        hasret == T.call_args[node.cid].hasret
        retval == args0[Len(args0)]
        args == IF hasret THEN SubSeq(args0, 1, Len(args0) - 1) ELSE args0
    IN library_tasklet(
           node, g,
           RaiseIf([T EXCEPT !.call_args[node.cid].args = args],
                   hasret /\ retval.kind # "name", "TypeError"),
           hasret, retval, <<node.callee>> \o arg_names(args),
           ext_ports(T, g, <<node.callee>> \o arg_names(args), node.callee,
                     [input_names |-> <<>>, input_names_tasklet |-> <<>>,
                      output_names |-> <<>>, output_names_tasklet |-> <<>>]))

\* self.functions_and_subroutines: the names FindFunctionAndSubroutines found.
functions_and_subroutines(T) == {T.top_level[i].name : i \in 1..Len(T.top_level)}

\* The definition call2sdfg finds for a callee: the first with its name.
find_definition(T, name) ==
    T.top_level[CHOOSE i \in 1..Len(T.top_level) :
                    T.top_level[i].name = name
                    /\ \A j \in 1..(i - 1) : T.top_level[j].name # name]

\* call2sdfg: the arguments are remembered for the graph (the list itself,
\* not a copy); a known procedure is lowered into a nested graph, anything
\* else is a library call.  self.function2sdfg does not exist.
call2sdfg(node, g, T) ==
    IF node.callee \in functions_and_subroutines(T)
    THEN IF find_definition(T, node.callee).kind = "function"
         THEN Raise([T EXCEPT !.last_call_expression[g] = node.cid], "AttributeError")
         ELSE subroutine2sdfg(find_definition(T, node.callee), g,
                              [T EXCEPT !.last_call_expression[g] = node.cid])
    ELSE call_library(node, g, [T EXCEPT !.last_call_expression[g] = node.cid])

(***************************************************************************)
(* subroutine2sdfg                                                         *)
(***************************************************************************)

\* list(dict.fromkeys(l)): the elements of l without repetitions, in order.
RECURSIVE Unique(_)
Unique(l) ==
    IF l = <<>> THEN <<>>
    ELSE LET u == Unique(SubSeq(l, 1, Len(l) - 1))
         IN IF Count(u, l[Len(l)]) = 0 THEN Append(u, l[Len(l)]) ELSE u

Member(l, x) == \E i \in 1..Len(l) : l[i] = x

\* The names FindInputs finds below the statements l.
RECURSIVE stmts_reads(_, _)
stmts_reads(l, args) ==
    IF l = <<>> THEN <<>>
    ELSE LET n == Head(l)
             own == IF n.class = "BinOp" /\ n.cid = 0
                    THEN LET f == FindInputs(n) IN [j \in 1..Len(f) |-> f[j].name]
                    ELSE IF n.class \in {"BinOp", "Call"}
                    THEN arg_names(args[n.cid].args)
                    ELSE IF n.class = "For" THEN <<n.lval.name>>
                    ELSE <<>>
         IN own \o stmts_reads(n.body, args) \o stmts_reads(n.body_else, args)
            \o stmts_reads(Tail(l), args)

\* The names FindOutputs finds below the statements l.
RECURSIVE stmts_writes(_, _)
stmts_writes(l, args) ==
    IF l = <<>> THEN <<>>
    ELSE LET n == Head(l)
             own == IF n.class = "BinOp" THEN <<n.lval.name>>
                    ELSE IF n.class = "For" THEN <<n.lval.name>>
                    ELSE IF n.class = "Call" THEN arg_names(args[n.cid].args)
                    ELSE <<>>
         IN own \o stmts_writes(n.body, args) \o stmts_writes(n.body_else, args)
            \o stmts_writes(Tail(l), args)

\* read_names and write_names of a procedure, as one record.
used_names(node, T) ==
    [read |-> Unique(stmts_reads(node.body, T.call_args)),
     write |-> Unique(stmts_writes(node.body, T.call_args))]

\* SDFG(node.name.name): a new graph; every per-graph table has no entry for it.
new_sdfg(T, name) ==
    Step(T, [T EXCEPT !.sdfgs = Append(@, SDFG(name)),
                      !.last_sdfg_states = Append(@, NoState),
                      !.last_loop_continues = Append(@, NoState),
                      !.last_loop_breaks = Append(@, NoState),
                      !.name_mapping = Append(@, <<>>),
                      !.last_call_expression = Append(@, 0)])

\* A check that tolerates one argument more whatever the result type is.
arity_lenient(n_args, node) ==
    n_args = Len(node.args) \/ n_args = Len(node.args) + 1

\* The sanity check on the number of arguments.
arity_matches(n_args, node) ==
    n_args = Len(node.args) \/ (n_args = Len(node.args) + 1 /\ ~node.void)

\* The first loop over the arguments: literals, symbols of the calling
\* graph, and the rest.  varname keeps its value from the previous argument
\* when the argument is neither a name nor a subscript.
RECURSIVE classify(_, _, _, _, _)
classify(variables_in_call, params, symbols, i, acc) ==
    IF i > Len(variables_in_call) \/ acc.error THEN acc
    ELSE LET v == variables_in_call[i]
             varname == IF v.kind \in {"name", "subscript"} THEN v.name ELSE acc.varname
             a == [acc EXCEPT !.varname = varname]
         IN IF i > Len(params) THEN [acc EXCEPT !.error = TRUE]
            ELSE IF v.kind = "literal" \/ varname = "LITERAL"
            THEN classify(variables_in_call, params, symbols, i + 1,
                          [a EXCEPT !.literals = Append(@, params[i]),
                                    !.literal_values = Append(@, v)])
            ELSE IF varname \in symbols
            THEN classify(variables_in_call, params, symbols, i + 1,
                          [a EXCEPT !.symbol_arguments =
                                        Append(@, [parameter |-> params[i], symbol |-> v])])
            ELSE classify(variables_in_call, params, symbols, i + 1,
                          [a EXCEPT !.par2 = Append(@, params[i]), !.var2 = Append(@, v)])

no_classes ==
    [literals |-> <<>>, literal_values |-> <<>>, symbol_arguments |-> <<>>,
     par2 |-> <<>>, var2 |-> <<>>, varname |-> NoName, error |-> FALSE]

\* assigns: formal = literal for every literal, then formal = symbol for
\* every symbol argument whose name differs from the formal's.
literal_assigns(c, line) ==
    [i \in 1..Len(c.literals) |->
        LET v == c.literal_values[i]
        IN Number(IF v.kind = "literal"
                  THEN BinOp_Node(Occ(c.literals[i], <<>>), v.value, <<>>)
                  ELSE BinOp_Node(Occ(c.literals[i], <<>>), 0, <<Occ(v.name, v.indices)>>),
                  line)]

symbol_assigns(c, line) ==
    LET differ == Filter(c.symbol_arguments, LAMBDA p : p.parameter # p.symbol.name)
    IN [i \in 1..Len(differ) |->
           Number(BinOp_Node(Occ(differ[i].parameter, <<>>), 0,
                             <<Occ(differ[i].symbol.name, <<>>)>>), line)]

\* A pop that removes nothing.
NoPop(l, k) == l

\* pop(k) on a list: without its k-th element.
Pop(l, k) == SubSeq(l, 1, k - 1) \o SubSeq(l, k + 1, Len(l))

\* The walk over the indices of a subscripted argument: the shape keeps the
\* select-all axes, the strides and offsets lose the indexed axes.
RECURSIVE slice(_, _, _, _)
slice(indices, array, i, acc) ==
    IF i > Len(indices) \/ acc.error # "" THEN acc
    ELSE IF indices[i].k = "ALL"
    THEN IF i > Len(array.shape) THEN [acc EXCEPT !.error = "IndexError"]
         ELSE slice(indices, array, i + 1,
                    [acc EXCEPT !.shape = Append(@, array.shape[i]),
                                !.index_list = Append(@, ParDecl_ALL)])
    ELSE IF indices[i].k = "RANGE" THEN [acc EXCEPT !.error = "NotImplementedError"]
    ELSE IF i - acc.changed > Len(acc.strides) THEN [acc EXCEPT !.error = "IndexError"]
    ELSE slice(indices, array, i + 1,
               [acc EXCEPT !.index_list = Append(@, indices[i]),
                           !.strides = Pop(@, i - acc.changed),
                           !.offsets = Pop(@, i - acc.changed),
                           !.changed = @ + 1])

\* The subset that ignores the indices: every axis in full.
full_subset(index_list, shape) ==
    Range([d \in 1..Len(shape) |-> Dim(1, shape[d])])

\* subsets.Range over zip(all_indices, array.shape): the index where there is
\* one, else 1..size; all_indices pads the index list with None in FRONT.
view_subset(index_list, shape) ==
    LET pad == IF Len(shape) > Len(index_list) THEN Len(shape) - Len(index_list) ELSE 0
    IN Range([d \in 1..Len(shape) |->
                 IF d <= pad \/ index_list[d - pad].k = "ALL"
                 THEN Dim(1, shape[d])
                 ELSE Point(index_list[d - pad])])

\* subsets.Range([(0, s - 1, 1) for s in shape]).
small_subset(shape) == Range([d \in 1..Len(shape) |-> Dim(0, shape[d] - 1)])

\* A test that takes only the empty shape for a scalar's.
empty_shape(shape) == shape = <<>>

\* Whether a shape is that of a scalar: (), (1,), [] or [1].
scalar_shape(shape) == shape = <<>> \/ shape = <<1>>

\* The formal that is bound for the argument v: parameters[variables_in_call.index(v)].
formal_of(c, v) == c.par2[IndexOf(c.var2, v)]

\* The formal gets its name in the nested graph; it is an input when the
\* callee reads it and an output when the callee writes it.
bind_formal(T, new, local_name, used) ==
    LET nm == find_new_name(T, new, local_name)
    IN Step(T, [T EXCEPT !.name_mapping[new] = Put(@, local_name, nm),
                         !.locals.local_name = local_name,
                         !.locals.ins = IF Member(used.read, local_name)
                                        THEN Append(@, nm) ELSE @,
                         !.locals.outs = IF Member(used.write, local_name)
                                         THEN Append(@, nm) ELSE @])

\* The view of the indexed part sl of a container: its descriptor, the edge
\* from the container when the callee reads the formal, the edge to the
\* container when it writes it, and its entry in views.
add_view(T, g, substate, array_name, array, sl, isread, iswritten, index) ==
    LET viewname == array_name \o "_view_" \o ToString(T.views)
        subset == view_subset(sl.index_list, array.shape)
        desc == View(array.dtype, sl.shape, sl.strides, [d \in 1..Len(sl.offsets) |-> 0])
        edge(dir, conn) ==
            Memlet(substate, dir, array_name, 0, conn, subset, viewname,
                   small_subset(sl.shape))
    IN IF viewname \in Keys(T.sdfgs[g].arrays) THEN Raise(T, "NameError")
       ELSE Step(T, [T EXCEPT !.sdfgs[g].arrays = Append(@, [k |-> viewname, v |-> desc]),
                              !.sdfgs[g].memlets =
                                  @ \o (IF isread THEN <<edge("toview", "views")>> ELSE <<>>)
                                    \o (IF iswritten THEN <<edge("fromview", "views2")>>
                                        ELSE <<>>),
                              !.views = @ + 1,
                              !.locals.view_list =
                                  Append(@, [array_name |-> array_name, wv |-> isread,
                                             rv |-> iswritten, index |-> index,
                                             viewname |-> viewname])])

\* An argument, indexed as sl says, is bound to its formal: a scalar, the
\* whole array, or (for a subscripted argument) the array behind a view.
bind_sliced(T, g, new, used, substate, c, v, array_name, array, sl) ==
    IF sl.error # "" THEN Raise(bind_formal(T, new, formal_of(c, v), used), sl.error)
    ELSE add_datadesc(
             IF v.kind # "name" /\ ~scalar_shape(sl.shape)
             THEN add_view(bind_formal(T, new, formal_of(c, v), used), g, substate,
                           array_name, array, sl, Member(used.read, formal_of(c, v)),
                           Member(used.write, formal_of(c, v)), IndexOf(c.var2, v))
             ELSE bind_formal(T, new, formal_of(c, v), used),
             new, find_new_name(T, new, formal_of(c, v)),
             IF scalar_shape(sl.shape) THEN Scalar(array.dtype, FALSE)
             ELSE Array(array.dtype, sl.shape, sl.strides, sl.offsets, FALSE))

\* An argument whose container is found under the calling graph's own name
\* mapping: the walk over its indices, if it has any, decides its shape.
bind_local(T, g, new, used, substate, c, v, array_name, array) ==
    LET whole == [shape |-> array.shape, index_list |-> <<>>, strides |-> array.strides,
                  offsets |-> array.offset, changed |-> 0, error |-> ""]
    IN bind_sliced(T, g, new, used, substate, c, v, array_name, array,
                   IF v.kind = "subscript"
                   THEN slice(v.indices, array, 1, [whole EXCEPT !.shape = <<>>])
                   ELSE whole)

\* An argument whose container is found only under the top-level name
\* mapping: the shape loses as many leading axes as the argument has indices,
\* the strides and offsets are those of the whole container.
bind_global(T, new, used, c, v, array) ==
    LET indices == IF v.kind = "subscript" THEN Len(v.indices) ELSE 0
        shape == SubSeq(array.shape, indices + 1, Len(array.shape))
    IN add_datadesc(bind_formal(T, new, formal_of(c, v), used), new,
                    find_new_name(T, new, formal_of(c, v)),
                    IF scalar_shape(shape) THEN Scalar(array.dtype, FALSE)
                    ELSE Array(array.dtype, shape, array.strides, array.offset, FALSE))

\* One container argument v, found as sdfg_name under the calling graph's
\* mapping or as globalsdfg_name under the top-level one.
bind_arg(T, g, new, used, substate, c, v, sdfg_name, globalsdfg_name, all_arrays) ==
    IF sdfg_name # NoName /\ sdfg_name \in Keys(all_arrays)
    THEN bind_local(T, g, new, used, substate, c, v, sdfg_name,
                    Get(all_arrays, sdfg_name, Scalar("", TRUE)))
    ELSE IF globalsdfg_name # NoName /\ globalsdfg_name \in Keys(all_arrays)
    THEN bind_global(T, new, used, c, v, Get(all_arrays, globalsdfg_name, Scalar("", TRUE)))
    ELSE T

\* The loop that binds every container argument, in order.
RECURSIVE bind_args(_, _, _, _, _, _, _)
bind_args(T, g, new, used, substate, c, k) ==
    IF T.raised # "" \/ k > Len(c.var2) THEN T
    ELSE bind_args(
             bind_arg(T, g, new, used, substate, c, c.var2[k],
                      Get(T.name_mapping[g], c.var2[k].name, NoName),
                      Get(T.name_mapping[globalsdfg], c.var2[k].name, NoName),
                      get_arrays_in_context(T, g)),
             g, new, used, substate, c, k + 1)

\* self.libstates: never filled by the translator.
libstates == <<>>

\* The descriptor a module-level variable gets in the nested graph: a copy of
\* array_in_global, non-transient.
module_desc(d) ==
    IF d.type = "Scalar" THEN Scalar(d.dtype, FALSE)
    ELSE Array(d.dtype, d.shape, d.strides, d.offset, FALSE)

\* One module-level variable i that the callee uses without receiving it:
\* it is searched in the calling graph, else in the top-level graph.  The new
\* container is copied from array_in_global, which only the loop over the
\* names read assigns (use_own); unassigned, it is an unbound local.
bind_module_var(T, g, new, used, i, use_own) ==
    LET local == Get(T.name_mapping[g], i, NoName) # NoName
        glob == Get(T.name_mapping[globalsdfg], i, NoName) # NoName
        nm == find_new_name(T, new, i)
        array_in_global ==
            IF ~use_own THEN T.locals.array_in_global
            ELSE IF local THEN <<array_of(T, g, Get(T.name_mapping[g], i, NoName))>>
            ELSE <<array_of(T, globalsdfg, Get(T.name_mapping[globalsdfg], i, NoName))>>
    IN IF ~Member(T.module_vars, i) \/ (~local /\ ~glob) THEN T
       ELSE [T EXCEPT !.name_mapping[new] = Put(@, i, nm),
                      !.locals.addedmemlets = IF local THEN Append(@, i) ELSE @,
                      !.locals.globalmemlets = IF local THEN @ ELSE Append(@, i),
                      !.locals.ins = IF Member(used.read, i) THEN Append(@, nm) ELSE @,
                      !.locals.outs = IF Member(used.write, i) THEN Append(@, nm) ELSE @,
                      !.locals.array_in_global = array_in_global,
                      !.raised = IF array_in_global = <<>> THEN "UnboundLocalError" ELSE @,
                      !.sdfgs[new].arrays =
                          IF array_in_global = <<>> THEN @
                          ELSE Append(@, [k |-> nm, v |-> module_desc(array_in_global[1])])]

\* The names of the list that the nested graph's mapping does not know.
not_found(T, new, names) ==
    Filter(names, LAMBDA i : Get(T.name_mapping[new], i, NoName) = NoName)

\* The loop over not_found_read_names.
RECURSIVE bind_read_module_vars(_, _, _, _, _)
bind_read_module_vars(T, g, new, used, names) ==
    IF T.raised # "" \/ names = <<>> THEN T
    ELSE bind_read_module_vars(bind_module_var(T, g, new, used, Head(names), TRUE),
                               g, new, used, Tail(names))

\* The loop over not_found_write_names, skipping those also read: the new
\* container is copied from array_in_global as the read loop left it.
RECURSIVE bind_write_module_vars(_, _, _, _, _, _)
bind_write_module_vars(T, g, new, used, names, not_found_read_names) ==
    IF T.raised # "" \/ names = <<>> THEN T
    ELSE bind_write_module_vars(
             IF Member(not_found_read_names, Head(names)) THEN T
             ELSE bind_module_var(T, g, new, used, Head(names), FALSE),
             g, new, used, Tail(names), not_found_read_names)

\* Both loops, over the names the callee uses that no argument bound.
bind_module_vars(T, g, new, used) ==
    bind_write_module_vars(
        bind_read_module_vars(T, g, new, used, not_found(T, new, used.read)),
        g, new, used, not_found(T, new, used.write), not_found(T, new, used.read))

\* substate.add_nested_sdfg(new_sdfg, sdfg, ins_in_new_sdfg, outs_in_new_sdfg).
add_nested_sdfg(T, g, substate, line, new) ==
    add_node(T, g, DfNode(substate, "nsdfg", line, Unique(T.locals.ins),
                          Unique(T.locals.outs), new, NoCode))

\* The name an argument is wired under: the calling graph's mapping, a symbol
\* of the calling graph, the top-level mapping; NoName raises NameError.
wired_name(T, g, v) ==
    IF Get(T.name_mapping[g], v.name, NoName) # NoName
    THEN Get(T.name_mapping[g], v.name, NoName)
    ELSE IF v.name \in T.sdfgs[g].symbols THEN v.name
    ELSE Get(T.name_mapping[globalsdfg], v.name, NoName)

\* The memlet the wiring loop chooses from the shape of the argument's container.
wired_memlet(T, g, v) ==
    IF Get(T.name_mapping[g], v.name, NoName) = NoName /\ v.name \in T.sdfgs[g].symbols
    THEN Whole
    ELSE IF memlet_shape(T, g, v.name) = <<>> THEN Whole
    ELSE IF memlet_shape(T, g, v.name) = <<1>> THEN Zero
    ELSE generate_memlet(T, g, Occ(v.name, v.indices))

\* The edges between a container and a port of the nested-graph node: the
\* write edge when the callee writes the formal, then the read edge when it
\* reads it.
wire(T, g, substate, name, internal_sdfg, conn, memlet, isread, iswritten) ==
    Step(T, [T EXCEPT !.sdfgs[g].memlets =
                 @ \o (IF iswritten
                       THEN <<Memlet(substate, "out", name, internal_sdfg, conn, memlet,
                                     NoName, Whole)>>
                       ELSE <<>>)
                   \o (IF isread
                       THEN <<Memlet(substate, "in", name, internal_sdfg, conn, memlet,
                                     NoName, Whole)>>
                       ELSE <<>>)])

\* The edges of an argument through every view recorded for it.
RECURSIVE wire_views(_, _, _, _, _, _, _, _)
wire_views(T, g, substate, internal_sdfg, conn, es, isread, iswritten) ==
    IF es = <<>> THEN T
    ELSE wire_views(
             wire(T, g, substate, Head(es).viewname, internal_sdfg, conn,
                  small_subset(array_of(T, g, Head(es).viewname).shape), isread, iswritten),
             g, substate, internal_sdfg, conn, Tail(es), isread, iswritten)

\* The edges between the argument v, wired as mapped_name, and the port conn
\* of the nested-graph node: through the views recorded for (container,
\* position) when there are any, else direct.
wire_arg(T, g, substate, internal_sdfg, v, mapped_name, conn, hits, isread, iswritten) ==
    IF mapped_name = NoName THEN Raise(T, "NameError")
    ELSE IF (iswritten \/ isread) /\ conn = NoName THEN Raise(T, "KeyError")
    ELSE IF hits # <<>>
    THEN wire_views(T, g, substate, internal_sdfg, conn, hits, isread, iswritten)
    ELSE wire(T, g, substate, mapped_name, internal_sdfg, conn, wired_memlet(T, g, v),
              isread, iswritten)

\* The views recorded for the container name at the position of v.
views_of(T, c, v, name) ==
    Filter(T.locals.view_list,
           LAMBDA e : e.array_name = name /\ e.index = IndexOf(c.var2, v))

\* The loop that wires every container argument, in order; local_name is
\* the formal of the argument.
RECURSIVE wire_args(_, _, _, _, _, _, _, _)
wire_args(T, g, new, used, substate, internal_sdfg, c, k) ==
    IF T.raised # "" \/ k > Len(c.var2) THEN T
    ELSE wire_args(
             wire_arg([T EXCEPT !.locals.local_name = formal_of(c, c.var2[k])],
                      g, substate, internal_sdfg, c.var2[k], wired_name(T, g, c.var2[k]),
                      Get(T.name_mapping[new], formal_of(c, c.var2[k]), NoName),
                      views_of(T, c, c.var2[k], wired_name(T, g, c.var2[k])),
                      Member(used.read, formal_of(c, c.var2[k])),
                      Member(used.write, formal_of(c, c.var2[k]))),
             g, new, used, substate, internal_sdfg, c, k + 1)

\* The edges of the module-level variables found in the calling graph
\* (addedmemlets), then of those found in the top-level graph
\* (globalmemlets): the direction is decided by local_name, the formal the
\* loops before left behind, not by the variable.
RECURSIVE wire_module_vars(_, _, _, _, _, _, _, _)
wire_module_vars(T, g, from, new, used, substate, internal_sdfg, k) ==
    LET names == IF from = "addedmemlets" THEN T.locals.addedmemlets
                 ELSE T.locals.globalmemlets
        outer == IF from = "addedmemlets" THEN g ELSE globalsdfg
    IN IF T.raised # "" \/ k > Len(names) THEN T
       ELSE wire_module_vars(
                wire(RaiseIf(T, T.locals.local_name = NoName, "UnboundLocalError"),
                     g, substate, Get(T.name_mapping[outer], names[k], NoName),
                     internal_sdfg, Get(T.name_mapping[new], names[k], NoName),
                     generate_memlet(T, g, Occ(names[k], <<>>)),
                     Member(used.read, T.locals.local_name),
                     Member(used.write, T.locals.local_name)),
                g, from, new, used, substate, internal_sdfg, k + 1)

\* The constants of the top-level context that the callee's use statements
\* name: the callee's context is created when missing; the top-level context
\* must exist when the callee's has no such constant.
RECURSIVE copy_constants(_, _, _)
copy_constants(T, new, uses) ==
    IF T.raised # "" \/ uses = <<>> THEN T
    ELSE LET own == context_of(T, new)
             top == context_of(T, globalsdfg)
             k == Head(uses)
             missing == k \notin Keys(own.constants)
         IN copy_constants(
                RaiseIf([T EXCEPT !.contexts =
                             Put(@, T.sdfgs[new].name,
                                 IF missing /\ k \in Keys(top.constants)
                                 THEN [own EXCEPT !.constants =
                                           Put(@, k, Get(top.constants, k, ""))]
                                 ELSE own)],
                        missing /\ T.sdfgs[globalsdfg].name
                                       \notin Keys(T.contexts) \cup {T.sdfgs[new].name},
                        "KeyError"),
                new, Tail(uses))

\* The part of subroutine2sdfg in the calling graph g: the state of the call,
\* the checks on the arguments classified as c, the bindings, the
\* nested-graph node and its edges.  The new graph is the last one.
nested_sdfg(node, g, T, used, c, n_args) ==
    LET new == Len(T.sdfgs) + 1
        substate == next_state(T, g)
        internal_sdfg == next_node(T, g)
        local_name == IF c.literals = <<>> THEN NoName ELSE c.literals[Len(c.literals)]
    IN wire_module_vars(
           wire_module_vars(
               wire_args(
                   add_nested_sdfg(
                       bind_module_vars(
                           bind_args(
                               RaiseIf(
                                   RaiseIf(
                                       add_simple_state_to_sdfg(
                                           new_sdfg([T EXCEPT !.locals.local_name =
                                                                  local_name],
                                                    node.name),
                                           g, "state" \o node.name, node.line),
                                       ~arity_matches(n_args, node),
                                       "ValueError: number of parameters"),
                                   c.error, "IndexError"),
                               g, new, used, substate, c, 1),
                           g, new, used),
                       g, substate, node.line, new),
                   g, new, used, substate, internal_sdfg, c, 1),
               g, "addedmemlets", new, used, substate, internal_sdfg, 1),
           g, "globalmemlets", new, used, substate, internal_sdfg, 1)

\* A lowering into the new graph that takes the callee's body before the
\* assignments of literals and symbols to formals.
body_first(node, new, T, assigns) ==
    translate_list(
        assigns, new,
        translate_list(node.body, new,
                       translate_list(node.specs, new, copy_constants(T, new, node.uses))))

\* The part of subroutine2sdfg in the new graph: the constants of the use
\* statements, the callee's declarations, the assignments of literals and
\* symbols to formals, and the callee's body.
nested_body(node, new, T, assigns) ==
    translate_list(
        node.body, new,
        translate_list(assigns, new,
                       translate_list(node.specs, new, copy_constants(T, new, node.uses))))

\* self.last_call_expression[sdfg].args: the arguments of the call.
variables_in_call(T, g) ==
    IF T.last_call_expression[g] = 0 THEN <<>>
    ELSE T.call_args[T.last_call_expression[g]].args

\* The first loop of subroutine2sdfg over the arguments.
classified(node, g, T) ==
    classify(variables_in_call(T, g), node.args, T.sdfgs[g].symbols, 1, no_classes)

\* subroutine2sdfg: a procedure without an execution part is skipped.
subroutine2sdfg(node, g, T) ==
    IF ~node.has_exec THEN T
    ELSE nested_body(
             node, Len(T.sdfgs) + 1,
             nested_sdfg(node, g, [T EXCEPT !.locals = NoLocals], used_names(node, T),
                         classified(node, g, T), Len(variables_in_call(T, g))),
             literal_assigns(classified(node, g, T), node.line)
                 \o symbol_assigns(classified(node, g, T), node.line))

\* translate: the dispatch on the node's class; a class without a handler is
\* skipped with a warning.
translate(node, g, T) ==
    IF T.raised # "" THEN T
    ELSE CASE node.class = "If" -> ifstmt2sdfg(node, g, T)
           [] node.class = "For" -> forstmt2sdfg(node, g, T)
           [] node.class = "BinOp" -> binop2sdfg(node, g, T)
           [] node.class = "Call" -> call2sdfg(node, g, T)
           [] node.class = "Decl" -> translate_list(node.body, g, T)
           [] node.class = "VarDecl" -> vardecl2sdfg(node, g, T)
           [] node.class = "Symbol" -> symbol2sdfg(node, g, T)
           [] node.class = "SymbolArray" -> symbolarray2sdfg(node, g, T)
           [] node.class = "Write" -> write2sdfg(node, g, T)
           [] node.class = "Allocate" -> allocate2sdfg(node, g, T)
           [] node.class = "Break" -> break2sdfg(node, g, T)
           [] node.class = "Pointer" -> pointerassignment2sdfg(node, g, T)
           [] node.class = "DerivedType" -> derivedtypedef2sdfg(node, g, T)
           [] OTHER -> T

(***************************************************************************)
(* The driver: ast2sdfg hands the nodes of the program to translate, one   *)
(* after the other, for the top-level graph.                               *)
(***************************************************************************)

\* The longest program.
MaxStmts == 3

\* The declarations of the sample programs.
VarDeclNodes ==
    {Var_Decl_Node("i", "INTEGER", <<>>, FALSE),
     Var_Decl_Node("x", "DOUBLE", <<>>, FALSE),
     Var_Decl_Node("x", "DOUBLE", <<2>>, FALSE),
     Var_Decl_Node("x", "DOUBLE", <<>>, TRUE)}

BinOpNodes == {assign}

BreakNodes == {Break_Node}

IfNodes ==
    {If_Stmt_Node(cond, <<assign>>, <<>>),
     If_Stmt_Node(cond, <<assign>>, <<assign>>),
     If_Stmt_Node(cond, <<Break_Node>>, <<>>),
     If_Stmt_Node(cond, <<loop(<<assign>>)>>, <<>>),
     If_Stmt_Node(cond, <<assign>>, <<loop(<<assign>>)>>)}

ForNodes ==
    {loop(<<assign>>),
     loop(<<Break_Node>>),
     loop(<<If_Stmt_Node(cond, <<Break_Node>>, <<>>)>>),
     loop(<<If_Stmt_Node(cond, <<assign>>, <<Break_Node>>)>>),
     loop(<<loop(<<assign>>), If_Stmt_Node(cond, <<Break_Node>>, <<>>)>>)}

\* The call nodes of the AST: what every Call_Expr_Node's args hold before
\* any lowering.  A call node is identified by its position here.
CallArgs(args) == [args |-> args, hasret |-> FALSE]

NameArg(n) == Arg("name", n, <<>>, 0)

SubscriptArg(n, indices) == Arg("subscript", n, indices, 0)

LiteralArg(v) == Arg("literal", "", <<>>, v)

InitialCalls ==
    <<CallArgs(<<SubscriptArg("a", <<Int_Literal_Node(1), ParDecl_ALL>>)>>),
      CallArgs(<<SubscriptArg("a", <<ParDecl_ALL, Int_Literal_Node(2)>>)>>),
      CallArgs(<<SubscriptArg("d", <<ParDecl_RANGE(2, 3)>>)>>),
      CallArgs(<<NameArg("d")>>),
      CallArgs(<<LiteralArg(2), NameArg("s"), NameArg("t")>>),
      CallArgs(<<NameArg("n"), NameArg("s"), NameArg("t")>>),
      CallArgs(<<NameArg("m"), NameArg("s"), NameArg("t")>>),
      CallArgs(<<NameArg("s"), NameArg("s"), NameArg("t")>>),
      CallArgs(<<NameArg("d"), NameArg("s")>>),
      CallArgs(<<NameArg("d"), NameArg("s")>>),
      CallArgs(<<NameArg("s")>>),
      CallArgs(<<NameArg("s")>>),
      CallArgs(<<>>),
      CallArgs(<<NameArg("d")>>),
      CallArgs(<<NameArg("s")>>),
      CallArgs(<<NameArg("d")>>),
      CallArgs(<<SubscriptArg("a", <<Int_Literal_Node(1), ParDecl_ALL>>)>>),
      CallArgs(<<>>),
      CallArgs(<<>>),
      CallArgs(<<NameArg("s")>>),
      CallArgs(<<>>),
      CallArgs(<<NameArg("s")>>),
      CallArgs(<<NameArg("p")>>),
      CallArgs(<<NameArg("s")>>),
      CallArgs(<<SubscriptArg("u", <<Int_Literal_Node(1), ParDecl_ALL>>), NameArg("s")>>),
      CallArgs(<<SubscriptArg("u", <<ParDecl_ALL, Int_Literal_Node(2)>>)>>),
      CallArgs(<<SubscriptArg("w", <<Int_Literal_Node(1), ParDecl_ALL,
                                     Int_Literal_Node(2)>>)>>),
      CallArgs(<<SubscriptArg("w", <<ParDecl_ALL, Int_Literal_Node(1), ParDecl_ALL>>)>>),
      CallArgs(<<NameArg("w")>>),
      CallArgs(<<NameArg("u"), NameArg("s")>>),
      CallArgs(<<SubscriptArg("w", <<Int_Literal_Node(1), Int_Literal_Node(1),
                                     Int_Literal_Node(1)>>)>>),
      CallArgs(<<NameArg("s")>>),
      CallArgs(<<NameArg("s")>>),
      CallArgs(<<NameArg("s")>>),
      CallArgs(<<NameArg("s")>>)>>

\* The callee of every call node.
Callees ==
    <<"scale", "scale", "scale", "scale", "add", "add", "add", "add", "scale", "empty",
      "f", "g", "count", "free_form", "branch", "scale", "scale", "whole", "part",
      "fetch", "bump", "store", "fetch", "via",
      "peek", "fill", "scale", "scale", "fill", "peek", "fill",
      "sqrt", "__dace_epsilon", "free_form", "f">>

\* The call nodes that are the right-hand side of an assignment t = callee(args).
Embedded == {11, 12}

\* The call nodes inside the bodies of whole and part, and the calls of
\* whole and part.
Inner == {16, 17}

Outer == {18, 19}

\* The calls of the procedures that use the module variable mv; 23 is the
\* call inside the body of via.
ModuleCalls == {20, 21, 22, 24}

\* The calls with an argument of the arrays u and w: indexed on every axis,
\* or passed whole.
ViewCalls == 25..31

\* The call nodes on the right-hand side of the assignments t = sqrt(s),
\* t = __dace_epsilon(s), t = free_form(s) and t = f(s).
RightHandCalls == 32..35

CallNodes ==
    {Call_Expr_Node(Callees[k], k) :
        k \in (1..Len(Callees))
                \ (Embedded \cup Inner \cup Outer \cup ModuleCalls \cup {23} \cup ViewCalls
                       \cup RightHandCalls)}

ViewCallNodes == {Call_Expr_Node(Callees[k], k) : k \in ViewCalls}

ModuleCallNodes == {Call_Expr_Node(Callees[k], k) : k \in ModuleCalls}

OuterCallNodes == {Call_Expr_Node(Callees[k], k) : k \in Outer}

BinOpCallNodes == {BinOp_Call_Node(Occ("t", <<>>), Callees[k], k) : k \in Embedded}

DeclNodes ==
    {Decl_Stmt_Node(<<Var_Decl_Node("s", "DOUBLE", <<>>, FALSE),
                      Var_Decl_Node("t", "DOUBLE", <<>>, FALSE)>>),
     Decl_Stmt_Node(<<Var_Decl_Node("a", "DOUBLE", <<2, 2>>, FALSE),
                      Var_Decl_Node("d", "DOUBLE", <<3>>, FALSE)>>),
     Decl_Stmt_Node(<<Var_Decl_Node("i", "INTEGER", <<>>, FALSE),
                      Var_Decl_Node("x", "DOUBLE", <<>>, FALSE)>>)}

SymbolNodes ==
    {Symbol_Decl_Node("n", "INTEGER", Expr("2", "", "")),
     Symbol_Decl_Node("m", "INTEGER", Expr("3", "", ""))}

\* The translator's fields as one record, threaded through the handlers.
Translator ==
    [sdfgs |-> sdfgs, last_sdfg_states |-> last_sdfg_states,
     last_loop_continues |-> last_loop_continues, last_loop_breaks |-> last_loop_breaks,
     name_mapping |-> name_mapping, unallocated_arrays |-> unallocated_arrays,
     views |-> views, last_call_expression |-> last_call_expression,
     call_args |-> call_args, contexts |-> contexts, module_vars |-> module_vars,
     registered_types |-> registered_types,
     raised |-> raised, locals |-> NoLocals, top_level |-> top_level]

\* AST_translator.__init__ followed by globalsdfg = SDFG(name): nothing lowered yet.
NewTranslator(args) ==
    [sdfgs |-> <<SDFG("top")>>, last_sdfg_states |-> <<NoState>>,
     last_loop_continues |-> <<NoState>>, last_loop_breaks |-> <<NoState>>,
     name_mapping |-> << <<>> >>, unallocated_arrays |-> <<>>,
     views |-> 0, last_call_expression |-> <<0>>,
     call_args |-> args, contexts |-> <<>>, module_vars |-> <<>>,
     registered_types |-> <<>>, raised |-> "",
     locals |-> NoLocals, top_level |-> top_level]

\* The translator's fields after a handler returned or raised.
Commit(T) ==
    /\ sdfgs' = T.sdfgs
    /\ last_sdfg_states' = T.last_sdfg_states
    /\ last_loop_continues' = T.last_loop_continues
    /\ last_loop_breaks' = T.last_loop_breaks
    /\ name_mapping' = T.name_mapping
    /\ unallocated_arrays' = T.unallocated_arrays
    /\ views' = T.views
    /\ last_call_expression' = T.last_call_expression
    /\ call_args' = T.call_args
    /\ contexts' = T.contexts
    /\ module_vars' = T.module_vars
    /\ registered_types' = T.registered_types
    /\ raised' = T.raised

\* AST_translator(...) and globalsdfg = SDFG(name): nothing is lowered yet.
\* The module resolution is not in use.
Init ==
    /\ sdfgs = NewTranslator(InitialCalls).sdfgs
    /\ last_sdfg_states = NewTranslator(InitialCalls).last_sdfg_states
    /\ last_loop_continues = NewTranslator(InitialCalls).last_loop_continues
    /\ last_loop_breaks = NewTranslator(InitialCalls).last_loop_breaks
    /\ name_mapping = NewTranslator(InitialCalls).name_mapping
    /\ unallocated_arrays = NewTranslator(InitialCalls).unallocated_arrays
    /\ views = NewTranslator(InitialCalls).views
    /\ last_call_expression = NewTranslator(InitialCalls).last_call_expression
    /\ call_args = NewTranslator(InitialCalls).call_args
    /\ contexts = NewTranslator(InitialCalls).contexts
    /\ module_vars = NewTranslator(InitialCalls).module_vars
    /\ registered_types = NewTranslator(InitialCalls).registered_types
    /\ raised = NewTranslator(InitialCalls).raised
    /\ pc = "lowering"
    /\ program = <<>>
    /\ previous = <<>>
    /\ resolver = <<>>
    /\ at = NoState
    /\ mem = <<>>

\* self.translate(node, sdfg) for the next node of the program: the node gets
\* the next line; an exception ends the translation.  A call node occurs once
\* in an AST.
Lower(node) ==
    /\ Len(program) < MaxStmts
    /\ node.cid = 0 \/ \A j \in 1..Len(program) : program[j].cid # node.cid
    /\ LET T == translate(Number(node, Len(program) + 1), globalsdfg, Translator)
       IN /\ Commit(T)
          /\ pc' = IF T.raised = "" THEN "lowering" ELSE "failed"
    /\ program' = Append(program, Number(node, Len(program) + 1))
    /\ UNCHANGED <<previous, resolver, at, mem>>

VarDecl ==
    /\ pc = "lowering"
    /\ \E node \in VarDeclNodes : Lower(node)

BinOp ==
    /\ pc = "lowering"
    /\ \E node \in BinOpNodes : Lower(node)

Break ==
    /\ pc = "lowering"
    /\ \E node \in BreakNodes : Lower(node)

IfStmt ==
    /\ pc = "lowering"
    /\ \E node \in IfNodes : Lower(node)

ForStmt ==
    /\ pc = "lowering"
    /\ \E node \in ForNodes : Lower(node)

DeclStmt ==
    /\ pc = "lowering"
    /\ \E node \in DeclNodes : Lower(node)

Symbol ==
    /\ pc = "lowering"
    /\ \E node \in SymbolNodes : Lower(node)

Call ==
    /\ pc = "lowering"
    /\ \E node \in CallNodes : Lower(node)

BinOpCall ==
    /\ pc = "lowering"
    /\ \E node \in BinOpCallNodes : Lower(node)

\* create_sdfg_from_fortran_file_with_options lowers the same program once per
\* start point: each time a new translator and a new top-level graph, the same
\* AST object.
Relower ==
    /\ pc = "lowering"
    /\ program # <<>>
    /\ Commit(translate_list(program, globalsdfg, NewTranslator(call_args)))
    /\ previous' = <<[sdfgs |-> sdfgs, raised |-> raised]>>
    /\ pc' = "relowered"
    /\ UNCHANGED <<program, resolver, at, mem>>

\* Declarations and control flow in the top-level graph.
Next == VarDecl \/ BinOp \/ Break \/ IfStmt \/ ForStmt

Spec == Init /\ [][Next]_vars

\* Declarations and calls, and a second lowering of the same AST.
NextCall == DeclStmt \/ Symbol \/ Call \/ BinOpCall \/ Relower

SpecCall == Init /\ [][NextCall]_vars

\* The declarations of the programs that allocate: x is declared allocatable
\* (alone, or after the array z), y is declared allocatable with another type.
AllocDeclNodes ==
    {Var_Decl_Node("x", "DOUBLE", <<>>, TRUE),
     Var_Decl_Node("y", "INTEGER", <<>>, TRUE),
     Decl_Stmt_Node(<<Var_Decl_Node("z", "DOUBLE", <<2>>, FALSE),
                      Var_Decl_Node("x", "DOUBLE", <<>>, TRUE)>>)}

\* allocate(x(2)), allocate(y(2, 3)).
AllocateNodes ==
    {Allocate_Stmt_Node("x", <<2>>),
     Allocate_Stmt_Node("y", <<2, 3>>)}

\* x => z, y => z.
PointerNodes ==
    {Pointer_Assignment_Stmt_Node("x", "z"),
     Pointer_Assignment_Stmt_Node("y", "z")}

\* A node of a class the dispatch table does not have.
Unknown_Node ==
    [Node EXCEPT !.class = "Unknown"]

\* type pair: double precision v(2, 3); integer n; end type.
DerivedTypeNodes ==
    {Derived_Type_Def_Node("pair", <<Var_Decl_Node("v", "DOUBLE", <<2, 3>>, FALSE),
                                     Var_Decl_Node("n", "INTEGER", <<>>, FALSE)>>),
     Derived_Type_Def_Node("cell", <<Var_Decl_Node("w", "REAL", <<2>>, FALSE)>>)}

\* The constructs that have no lowering.
UnsupportedNodes ==
    {Write_Stmt_Node, Symbol_Array_Decl_Node, Unknown_Node}

Declare ==
    /\ pc = "lowering"
    /\ \E node \in AllocDeclNodes : Lower(node)

Allocate ==
    /\ pc = "lowering"
    /\ \E node \in AllocateNodes : Lower(node)

PointerAssign ==
    /\ pc = "lowering"
    /\ \E node \in PointerNodes : Lower(node)

Unsupported ==
    /\ pc = "lowering"
    /\ \E node \in UnsupportedNodes : Lower(node)

DerivedType ==
    /\ pc = "lowering"
    /\ \E node \in DerivedTypeNodes : Lower(node)

CallOuter ==
    /\ pc = "lowering"
    /\ \E node \in OuterCallNodes : Lower(node)

\* Declarations, allocations, derived types and calls, from the top-level
\* graph and from a nested one: everything that creates a descriptor.
NextBind == DeclStmt \/ Declare \/ Allocate \/ DerivedType \/ Call \/ CallOuter

SpecBind == Init /\ [][NextBind]_vars

\* The declarations of the arrays u and w and of the scalar s; in the second
\* one an axis of w has one element.
ViewDeclNodes ==
    {Decl_Stmt_Node(<<Var_Decl_Node("u", "DOUBLE", <<2, 3>>, FALSE),
                      Var_Decl_Node("w", "DOUBLE", <<2, 3, 2>>, FALSE),
                      Var_Decl_Node("s", "DOUBLE", <<>>, FALSE)>>),
     Decl_Stmt_Node(<<Var_Decl_Node("u", "DOUBLE", <<3, 2>>, FALSE),
                      Var_Decl_Node("w", "DOUBLE", <<3, 1, 2>>, FALSE),
                      Var_Decl_Node("s", "DOUBLE", <<>>, FALSE)>>)}

DeclareView ==
    /\ pc = "lowering"
    /\ \E node \in ViewDeclNodes : Lower(node)

CallView ==
    /\ pc = "lowering"
    /\ \E node \in ViewCallNodes : Lower(node)

\* Declarations of arrays and calls that pass them indexed or whole.
NextView == DeclareView \/ CallView

SpecView == Init /\ [][NextView]_vars

\* The declarations of the programs that assign: the arrays x and y, the
\* scalar s and the one-element array e.
DataDeclNodes ==
    {Decl_Stmt_Node(<<Var_Decl_Node("x", "DOUBLE", <<3>>, FALSE),
                      Var_Decl_Node("y", "DOUBLE", <<3>>, FALSE),
                      Var_Decl_Node("s", "DOUBLE", <<>>, FALSE),
                      Var_Decl_Node("e", "DOUBLE", <<1>>, FALSE)>>)}

\* x(1) = 1;  s = y(2);  x(2) = y(1) + y(3);  x = x + s;  x(n) = y(n);
\* e(1) = s;  s = s + s.
AssignNodes ==
    {BinOp_Node(Occ("x", <<Int_Literal_Node(1)>>), 1, <<>>),
     BinOp_Node(Occ("s", <<>>), 0, <<Occ("y", <<Int_Literal_Node(2)>>)>>),
     BinOp_Node(Occ("x", <<Int_Literal_Node(2)>>), 0,
                <<Occ("y", <<Int_Literal_Node(1)>>), Occ("y", <<Int_Literal_Node(3)>>)>>),
     BinOp_Node(Occ("x", <<>>), 0, <<Occ("x", <<>>), Occ("s", <<>>)>>),
     BinOp_Node(Occ("x", <<Name_Node("n")>>), 0, <<Occ("y", <<Name_Node("n")>>)>>),
     BinOp_Node(Occ("e", <<Int_Literal_Node(1)>>), 0, <<Occ("s", <<>>)>>),
     BinOp_Node(Occ("s", <<>>), 0, <<Occ("s", <<>>), Occ("s", <<>>)>>)}

\* The specification part of a program precedes its execution part: no
\* statement was lowered yet.
NoStatementYet ==
    \A j \in 1..Len(program) : program[j].class \in {"Decl", "VarDecl", "Symbol"}

DeclareData ==
    /\ pc = "lowering"
    /\ NoStatementYet
    /\ \E node \in DataDeclNodes : Lower(node)

DeclareSymbol ==
    /\ pc = "lowering"
    /\ NoStatementYet
    /\ \E node \in SymbolNodes : Lower(node)

AssignStmt ==
    /\ pc = "lowering"
    /\ \E node \in AssignNodes : Lower(node)

\* Declarations of containers and symbols, and assignments to and from
\* whole containers and single elements.
NextAssign == DeclareData \/ DeclareSymbol \/ AssignStmt

SpecAssign == Init /\ [][NextAssign]_vars

\* The declarations of the programs that assign from calls.
ResultDeclNodes ==
    {Decl_Stmt_Node(<<Var_Decl_Node("s", "DOUBLE", <<>>, FALSE),
                      Var_Decl_Node("t", "DOUBLE", <<>>, FALSE)>>)}

\* t = sqrt(s);  t = __dace_epsilon(s);  t = free_form(s);  t = f(s);
\* t = f(s) + g(s);  t = s.
RightHandNodes ==
    {[BinOp_Call_Node(Occ("t", <<>>), Callees[k], k) EXCEPT !.reads = <<Occ("s", <<>>)>>] :
        k \in RightHandCalls}
    \cup {BinOp_Calls_Node(Occ("t", <<>>), "f", 2, <<Occ("s", <<>>), Occ("s", <<>>)>>),
          BinOp_Node(Occ("t", <<>>), 0, <<Occ("s", <<>>)>>)}

DeclareResult ==
    /\ pc = "lowering"
    /\ NoStatementYet
    /\ \E node \in ResultDeclNodes \cup DataDeclNodes : Lower(node)

AssignCall ==
    /\ pc = "lowering"
    /\ \E node \in RightHandNodes : Lower(node)

\* Declarations, and assignments with no call, one call or two calls on the
\* right-hand side.
NextRightHand == DeclareResult \/ AssignCall

SpecRightHand == Init /\ [][NextRightHand]_vars

\* The declarations of the specification part of a module.
ModuleDeclNodes ==
    {Decl_Stmt_Node(<<Var_Decl_Node("mv", "DOUBLE", <<>>, FALSE)>>),
     Decl_Stmt_Node(<<Var_Decl_Node("mv", "DOUBLE", <<2>>, FALSE)>>),
     Decl_Stmt_Node(<<Var_Decl_Node("mw", "DOUBLE", <<>>, FALSE),
                      Var_Decl_Node("mv", "DOUBLE", <<>>, FALSE)>>)}

\* ast2sdfg on one declaration j of a module: it is lowered into the
\* top-level graph and the names it declares are recorded in module_vars.
module_specification(j, g, T) ==
    LET T1 == translate(j, g, T)
    IN IF T1.raised # "" THEN T1
       ELSE [T1 EXCEPT !.module_vars = @ \o [k \in 1..Len(j.body) |-> j.body[k].name]]

\* ast2sdfg lowers the modules before the main program: so far the program
\* holds declarations of modules only.
ModulesOnly ==
    \A j \in 1..Len(program) :
        /\ program[j].class = "Decl"
        /\ \A k \in 1..Len(program[j].body) : Member(module_vars, program[j].body[k].name)

\* The next declaration of a module; no name is declared by two modules.
ModuleDecl ==
    /\ pc = "lowering"
    /\ ModulesOnly
    /\ Len(program) < MaxStmts
    /\ \E node \in ModuleDeclNodes :
           /\ \A k \in 1..Len(node.body) : ~Member(module_vars, node.body[k].name)
           /\ LET T == module_specification(Number(node, Len(program) + 1), globalsdfg,
                                            Translator)
              IN /\ Commit(T)
                 /\ pc' = IF T.raised = "" THEN "lowering" ELSE "failed"
           /\ program' = Append(program, Number(node, Len(program) + 1))
    /\ UNCHANGED <<previous, resolver, at, mem>>

CallModule ==
    /\ pc = "lowering"
    /\ \E node \in ModuleCallNodes : Lower(node)

\* Declarations of modules, then declarations of the main program and calls
\* of procedures that use a module variable.
NextModule == ModuleDecl \/ DeclStmt \/ CallModule

SpecModule == Init /\ [][NextModule]_vars

\* Allocatable declarations, allocations, pointer assignments and the
\* constructs without a lowering and derived types, in the top-level graph.
NextAlloc == Declare \/ Allocate \/ PointerAssign \/ Unsupported \/ DerivedType

SpecAlloc == Init /\ [][NextAlloc]_vars

(***************************************************************************)
(* The module resolution of create_sdfg_from_fortran_file_with_options:    *)
(* the closure of the entry file under "use" (recursive_ast_improver), the *)
(* pruning of the dependency graph to the imports that are used, and the   *)
(* parse order.  A corpus is a set of file names and, per module, what its *)
(* file defines: its use statements and its procedures with the names      *)
(* each of them refers to.                                                 *)
(***************************************************************************)

\* A use statement: "use m, only: names" or, with all, "use m".
Use(m, all, names) == [module |-> m, all |-> all, names |-> names]

\* A function or subroutine and the names in its body
\* (FunctionSubroutineLister.names_in_subroutines).
Proc(name, names) == [name |-> name, names |-> names]

\* The ways a module can use another: not at all, with an only-list, in full.
UseChoices(m, names) == {<<>>, <<Use(m, FALSE, names)>>, <<Use(m, TRUE, {})>>}

\* The entry module: run calls f and hook.
module_main(use_a, use_hook) ==
    [name |-> "main", uses |-> use_a \o use_hook,
     procs |-> <<Proc("run", {"f", "hook"})>>]

\* Module a: f calls g of the same module; k of module b is referred to by
\* f, by g or by neither; g calls hook.
module_a(use_b, use_hook, kref) ==
    [name |-> "a", uses |-> use_b \o use_hook,
     procs |-> <<Proc("f", {"g"} \cup (IF kref = "f" THEN {"k"} ELSE {})),
                 Proc("g", {"hook"} \cup (IF kref = "g" THEN {"k"} ELSE {}))>>]

module_b == [name |-> "b", uses |-> <<>>, procs |-> <<Proc("k", {})>>]

module_yomhook == [name |-> "yomhook", uses |-> <<>>, procs |-> <<Proc("hook", {})>>]

\* The files a corpus can have besides the entry file.
FileNames == {"a.f90", "b.F90", "yomhook.f90", "yomhook_dummy.f90"}

\* The corpora: source_list, and what the parser returns for a module's file.
Corpora ==
    {[source_list |-> files,
      modules |-> [m \in {"main", "a", "b", "yomhook"} |->
                      CASE m = "main" -> module_main(ua, uh)
                        [] m = "a" -> module_a(ub, vh, kref)
                        [] m = "b" -> module_b
                        [] OTHER -> module_yomhook]] :
        files \in SUBSET FileNames,
        ua \in UseChoices("a", {"f"}),
        uh \in UseChoices("yomhook", {"hook"}),
        ub \in UseChoices("b", {"k"}),
        vh \in {<<>>, <<Use("yomhook", FALSE, {"hook"})>>},
        kref \in {"f", "g", "none"}}

\* The module of the entry file.
entry_module == "main"

\* The file name recursive_ast_improver looks for: two modules live in files
\* of another name.
file_name(i) ==
    IF i = "mo_restart_nml_and_att" THEN "mo_restart_nmls_and_atts"
    ELSE IF i = "yomhook" THEN "yomhook_dummy"
    ELSE i

\* Whether source_list has the module's file, as .f90 or as .F90.
found(i, source_list) ==
    file_name(i) \o ".f90" \in source_list \/ file_name(i) \o ".F90" \in source_list

\* An append that does not look for x in l.
AddAlways(l, x) == Append(l, x)

\* l.append(x) if x not in l.
AddOnce(l, x) == IF Member(l, x) THEN l ELSE Append(l, x)

\* A networkx DiGraph: its nodes in insertion order, each with or without
\* the attribute info_list, and its edges with the attribute obj_list
\* (all: obj_list is None).
DiGraph == [nodes |-> <<>>, edges |-> <<>>]

has_node(G, i) == \E k \in 1..Len(G.nodes) : G.nodes[k].name = i

\* G.add_node(i, info_list=...): a new node, or the attribute of an old one.
add_node_info(G, i) ==
    IF has_node(G, i)
    THEN [G EXCEPT !.nodes = [k \in 1..Len(@) |-> IF @[k].name = i
                                                  THEN [@[k] EXCEPT !.info = TRUE]
                                                  ELSE @[k]]]
    ELSE [G EXCEPT !.nodes = Append(@, [name |-> i, info |-> TRUE])]

\* G.add_node(i): a new node without attributes, or nothing.
add_node_plain(G, i) ==
    IF has_node(G, i) THEN G
    ELSE [G EXCEPT !.nodes = Append(@, [name |-> i, info |-> FALSE])]

\* G.add_edge(u, v, obj_list=...): a new edge, or the attribute of an old
\* one; the end points become nodes.
add_dep_edge(G, u, v, all, names) ==
    LET e == [src |-> u, dst |-> v, all |-> all, names |-> names]
        N == add_node_plain(add_node_plain(G, u), v)
    IN IF \E k \in 1..Len(N.edges) : N.edges[k].src = u /\ N.edges[k].dst = v
       THEN [N EXCEPT !.edges = [k \in 1..Len(@) |->
                                    IF @[k].src = u /\ @[k].dst = v THEN e ELSE @[k]]]
       ELSE [N EXCEPT !.edges = Append(@, e)]

\* The loop over used_modules that fills the dependency graph.
RECURSIVE add_uses(_, _, _)
add_uses(G, parent_module, uses) ==
    IF uses = <<>> THEN G
    ELSE add_uses(add_dep_edge(add_node_plain(G, Head(uses).module), parent_module,
                               Head(uses).module, Head(uses).all, Head(uses).names),
                  parent_module, Tail(uses))

\* recursive_ast_improver on the AST of the file of module m: the module is
\* excluded from further parsing and put into the dependency graph with its
\* uses; every used module that was not excluded when the loop started is
\* searched in source_list, parsed and improved in turn, or noted as
\* missing.  D holds exclude_list, missing_modules and dep_graph, which the
\* calls share, and returns with the children of the improved AST.
RECURSIVE recursive_ast_improver(_, _, _)
RECURSIVE parse_modules(_, _, _, _)
recursive_ast_improver(m, corpus, D) ==
    LET uses == corpus.modules[m].uses
        D1 == [D EXCEPT !.exclude_list = AddOnce(@, m),
                        !.dep_graph = add_uses(add_node_info(@, m), m, uses)]
        modules_to_parse ==
            Filter([k \in 1..Len(uses) |-> uses[k].module],
                   LAMBDA i : i # m /\ ~Member(D1.exclude_list, i))
        D2 == parse_modules(modules_to_parse, corpus, D1, <<>>)
    IN [D2 EXCEPT !.children = <<m>> \o D2.children]

\* The loop over modules_to_parse; added_modules collects the children of
\* the improved ASTs.
parse_modules(l, corpus, D, added_modules) ==
    IF l = <<>> THEN [D EXCEPT !.children = added_modules]
    ELSE IF ~found(Head(l), corpus.source_list)
    THEN parse_modules(Tail(l), corpus,
                       [D EXCEPT !.missing_modules = AddOnce(@, Head(l))], added_modules)
    ELSE LET next_ast == recursive_ast_improver(Head(l), corpus, D)
             RECURSIVE exclude(_, _)
             exclude(ex, mods) ==
                 IF mods = <<>> THEN ex ELSE exclude(AddOnce(ex, Head(mods)), Tail(mods))
         IN parse_modules(Tail(l), corpus,
                          [next_ast EXCEPT !.exclude_list = exclude(@, next_ast.children)],
                          added_modules \o next_ast.children)

\* The locals of create_sdfg_from_fortran_file_with_options before the
\* closure is built.
NewResolver(corpus) ==
    [corpus |-> corpus, phase |-> "parsed", exclude_list |-> <<>>,
     missing_modules |-> <<>>, dep_graph |-> DiGraph, children |-> <<>>,
     simple_graph |-> DiGraph, parse_order |-> <<>>, top_level_ast |-> NoName,
     raised |-> ""]

\* The entry file is parsed; the translator is not in use yet.
InitResolve ==
    /\ sdfgs = NewTranslator(InitialCalls).sdfgs
    /\ last_sdfg_states = NewTranslator(InitialCalls).last_sdfg_states
    /\ last_loop_continues = NewTranslator(InitialCalls).last_loop_continues
    /\ last_loop_breaks = NewTranslator(InitialCalls).last_loop_breaks
    /\ name_mapping = NewTranslator(InitialCalls).name_mapping
    /\ unallocated_arrays = NewTranslator(InitialCalls).unallocated_arrays
    /\ views = NewTranslator(InitialCalls).views
    /\ last_call_expression = NewTranslator(InitialCalls).last_call_expression
    /\ call_args = NewTranslator(InitialCalls).call_args
    /\ contexts = NewTranslator(InitialCalls).contexts
    /\ module_vars = NewTranslator(InitialCalls).module_vars
    /\ registered_types = NewTranslator(InitialCalls).registered_types
    /\ raised = NewTranslator(InitialCalls).raised
    /\ pc = "resolving"
    /\ program = <<>>
    /\ previous = <<>>
    /\ resolver \in {NewResolver(corpus) : corpus \in Corpora}
    /\ at = NoState
    /\ mem = <<>>

\* ast = recursive_ast_improver(ast, ...): the closure of the entry file.
Improve ==
    /\ pc = "resolving"
    /\ resolver.phase = "parsed"
    /\ LET D == recursive_ast_improver(entry_module, resolver.corpus, resolver)
       IN resolver' = [D EXCEPT !.phase = "closed"]
    /\ UNCHANGED <<sdfgs, last_sdfg_states, last_loop_continues, last_loop_breaks,
                   name_mapping, unallocated_arrays, views, last_call_expression,
                   call_args, raised, pc, contexts, module_vars, registered_types,
                   program, previous, at, mem>>

\* nx.topological_sort: generation by generation, the nodes no remaining
\* node points to, in insertion order.
RECURSIVE topological_sort(_, _)
topological_sort(nodes, edges) ==
    LET ready == Filter(nodes, LAMBDA n : ~\E k \in 1..Len(edges) :
                                              edges[k].dst = n /\ Member(nodes, edges[k].src))
    IN IF nodes = <<>> \/ ready = <<>> THEN <<>>
       ELSE ready \o topological_sort(Filter(nodes, LAMBDA n : ~Member(ready, n)), edges)

\* The names of a graph's nodes, in insertion order.
node_names(G) == [k \in 1..Len(G.nodes) |-> G.nodes[k].name]

\* in_names of module i: the names on the only-lists of the edges into i.
in_names(G, i) ==
    UNION {G.edges[k].names : k \in {j \in 1..Len(G.edges) : G.edges[j].dst = i}}

\* out_names of module i: the names on the only-lists of the edges out of i.
out_names(G, i) ==
    UNION {G.edges[k].names : k \in {j \in 1..Len(G.edges) : G.edges[j].src = i}}

\* res: the info_list of module i, None (no procedures known) without one.
info_list(corpus, G, i) ==
    IF \E k \in 1..Len(G.nodes) : G.nodes[k].name = i /\ G.nodes[k].info
    THEN <<corpus.modules[i].procs>>
    ELSE <<>>

\* actually_used of module i: the imported names that occur in a procedure
\* of i; for a module other than the first of simplify_order only the
\* procedures count that a user of i imports by name.
actually_used(corpus, G, i, first) ==
    LET res == info_list(corpus, G, i)
    IN IF res = <<>> THEN {}
       ELSE {j \in out_names(G, i) :
                \E p \in 1..Len(res[1]) :
                    /\ i = first \/ res[1][p].name \in in_names(G, i)
                    /\ j \in res[1][p].names}

\* not_used of module i; nothing when the module has no info_list.
not_used(corpus, G, i, first) ==
    IF info_list(corpus, G, i) = <<>> THEN {}
    ELSE out_names(G, i) \ actually_used(corpus, G, i, first)

\* The second loop over the out-edges of module i: an edge whose only-list
\* keeps a name goes into simple_graph, if i is in it already or is the
\* first of simplify_order; an edge without an only-list is passed over.
RECURSIVE keep_edges(_, _, _, _, _)
keep_edges(S, edges, i, unused, first) ==
    IF edges = <<>> THEN S
    ELSE LET e == Head(edges)
             new_out_names_local == e.names \ unused
         IN IF e.src # i \/ e.names = {} \/ new_out_names_local = {}
            THEN keep_edges(S, Tail(edges), i, unused, first)
            ELSE IF ~has_node(S, i) /\ i # first
            THEN keep_edges(S, Tail(edges), i, unused, first)
            ELSE keep_edges(add_dep_edge(IF has_node(S, i) THEN S ELSE add_node_info(S, i),
                                         i, e.dst, FALSE, new_out_names_local),
                            Tail(edges), i, unused, first)

\* The loop over simplify_order that builds simple_graph.
RECURSIVE simplify(_, _, _, _, _)
simplify(S, corpus, G, order, first) ==
    IF order = <<>> THEN S
    ELSE simplify(keep_edges(IF has_node(S, Head(order)) /\ info_list(corpus, G, Head(order)) # <<>>
                             THEN add_node_info(S, Head(order)) ELSE S,
                             G.edges, Head(order), not_used(corpus, G, Head(order), first),
                             first),
                  corpus, G, Tail(order), first)

\* simplify_order = list(nx.topological_sort(dep_graph)).
simplify_order(G) == topological_sort(node_names(G), G.edges)

\* reversed(list(nx.topological_sort(simple_graph))).
Reverse(l) == [k \in 1..Len(l) |-> l[Len(l) + 1 - k]]

parse_order(S) == Reverse(topological_sort(node_names(S), S.edges))

\* The pruning pass: simple_graph from dep_graph.
Prune ==
    /\ pc = "resolving"
    /\ resolver.phase = "closed"
    /\ resolver' =
           [resolver EXCEPT
               !.phase = "pruned",
               !.simple_graph =
                   simplify(DiGraph, resolver.corpus, resolver.dep_graph,
                            simplify_order(resolver.dep_graph),
                            simplify_order(resolver.dep_graph)[1])]
    /\ UNCHANGED <<sdfgs, last_sdfg_states, last_loop_continues, last_loop_breaks,
                   name_mapping, unallocated_arrays, views, last_call_expression,
                   call_args, raised, pc, contexts, module_vars, registered_types,
                   program, previous, at, mem>>

\* The parse order: the reversed topological order of simple_graph, its
\* last element popped as the top level (an IndexError on an empty order),
\* and the modules outside it removed from the AST.
Order ==
    /\ pc = "resolving"
    /\ resolver.phase = "pruned"
    /\ LET order == parse_order(resolver.simple_graph)
       IN resolver' =
              IF order = <<>>
              THEN [resolver EXCEPT !.phase = "failed", !.raised = "IndexError"]
              ELSE [resolver EXCEPT
                       !.phase = "ordered",
                       !.parse_order = SubSeq(order, 1, Len(order) - 1),
                       !.top_level_ast = order[Len(order)],
                       !.children = Filter(@, LAMBDA c : Member(order, c))]
    /\ UNCHANGED <<sdfgs, last_sdfg_states, last_loop_continues, last_loop_breaks,
                   name_mapping, unallocated_arrays, views, last_call_expression,
                   call_args, raised, pc, contexts, module_vars, registered_types,
                   program, previous, at, mem>>

NextResolve == Improve \/ Prune \/ Order

SpecResolve == InitResolve /\ [][NextResolve]_vars

(***************************************************************************)
(* The element-wise selection MERGE(a, b, mask).  The AST passes that run  *)
(* before the translator extract a nested call into a temporary and turn   *)
(* the intrinsic into a loop over the elements; the translator lowers the  *)
(* loop, and the generated program is run state by state.                  *)
(***************************************************************************)

\* The length of the arrays.
MergeLen == 3

\* The text of the operand a(i).
Subscript(a, i) == a \o "(" \o i \o ")"

\* res(i) = src(i).
copy(res, src) ==
    BinOp_Node(Occ(res, <<Name_Node("i")>>), 0, <<Occ(src, <<Name_Node("i")>>)>>)

\* do i = 1, MergeLen: if (mask(i) == 1) then res(i) = a(i) else res(i) = b(i).
merge_loop(res, a, b, mask) ==
    For_Stmt_Node("i", Expr("1", "", ""), Expr("i", "<=", ToString(MergeLen)),
                  Expr("i", "+", "1"),
                  <<If_Stmt_Node(Expr(Subscript(mask, "i"), "==", "1"),
                                 <<copy(res, a)>>, <<copy(res, b)>>)>>)

\* The declarations of the arrays, all of length MergeLen.
merge_decls(names) ==
    Decl_Stmt_Node([j \in 1..Len(names) |->
                       Var_Decl_Node(names[j],
                                     IF names[j] \in {"mask1", "mask2"} THEN "INTEGER"
                                     ELSE "DOUBLE",
                                     <<MergeLen>>, FALSE)])

\* res = MERGE(A, B, mask1), and res = MERGE(MERGE(A, B, mask1), C, mask2)
\* with the inner selection extracted into tmp.
MergePrograms ==
    {<<merge_decls(<<"A", "B", "mask1", "res">>),
       Symbol_Decl_Node("i", "INTEGER", NoExpr),
       merge_loop("res", "A", "B", "mask1")>>,
     <<merge_decls(<<"A", "B", "C", "mask1", "mask2", "tmp", "res">>),
       Symbol_Decl_Node("i", "INTEGER", NoExpr),
       merge_loop("tmp", "A", "B", "mask1"),
       merge_loop("res", "tmp", "C", "mask2")>>}

\* The statements of a program with their lines.
Numbered(p) == [j \in 1..Len(p) |-> Number(p[j], j)]

\* Every node of the statements l, at any depth.
RECURSIVE Descendants(_)
Descendants(l) ==
    IF l = <<>> THEN {}
    ELSE {Head(l)} \cup Descendants(Head(l).body) \cup Descendants(Head(l).body_else)
         \cup Descendants(Tail(l))

\* The names a program declares.
DeclaredNames(p) ==
    {n.name : n \in {d \in Descendants(p) : d.class \in {"VarDecl", "Symbol"}}}

\* The masks: one 0 or 1 per element.
Masks == [1..MergeLen -> {0, 1}]

\* The inputs of a run: A, B and C hold different values at every element,
\* the masks are arbitrary, the results hold 40 and the symbols 0.
MergeInputs(names) ==
    {[n \in names |->
         CASE n = "mask1" -> m1
           [] n = "mask2" -> m2
           [] n = "A" -> [k \in 1..MergeLen |-> 10 + k]
           [] n = "B" -> [k \in 1..MergeLen |-> 20 + k]
           [] n = "C" -> [k \in 1..MergeLen |-> 30 + k]
           [] n = "i" -> 0
           [] OTHER -> [k \in 1..MergeLen |-> 40]] : m1 \in Masks, m2 \in Masks}

\* The top-level graph.
TopGraph == sdfgs[globalsdfg]

\* The transition edges that leave the state s.
OutEdges(s) == {i \in 1..Len(TopGraph.edges) : TopGraph.edges[i].src = s}

\* The expressions of the program: the texts on the edges are written from them.
Exprs ==
    UNION {{n.cond, n.init, n.iter} : n \in Descendants(program)} \ {NoExpr}

Numeral(text) == \E v \in 0..(MergeLen + 1) : ToString(v) = text

\* The value of an operand: a literal, a symbol or scalar, or an array element.
OperandValue(m, op) ==
    IF Numeral(op) THEN CHOOSE v \in 0..(MergeLen + 1) : ToString(v) = op
    ELSE IF op \in DOMAIN m THEN m[op]
    ELSE LET a == CHOOSE a \in DOMAIN m : \E i \in DOMAIN m : op = Subscript(a, i)
             i == CHOOSE i \in DOMAIN m : op = Subscript(a, i)
         IN m[a][m[i]]

\* The value of an expression.
EvalExpr(m, e) ==
    CASE e.op = "" -> OperandValue(m, e.l)
      [] e.op = "+" -> OperandValue(m, e.l) + OperandValue(m, e.r)
      [] e.op = "==" -> OperandValue(m, e.l) = OperandValue(m, e.r)
      [] e.op = "<=" -> OperandValue(m, e.l) <= OperandValue(m, e.r)
      [] e.op = "<" -> OperandValue(m, e.l) < OperandValue(m, e.r)
      [] e.op = ">" -> OperandValue(m, e.l) > OperandValue(m, e.r)

\* Whether the guard of a transition edge holds: the guard is the text of an
\* expression, or "not (" text ")".
Enabled(m, edge) ==
    IF edge.cond = Always THEN TRUE
    ELSE \E e \in Exprs :
             IF edge.cond = write_code(Translator, globalsdfg, e) THEN EvalExpr(m, e)
             ELSE IF edge.cond = "not (" \o write_code(Translator, globalsdfg, e) \o ")"
             THEN ~EvalExpr(m, e)
             ELSE FALSE

\* The assignment of a transition edge.
Assign(m, edge) ==
    IF edge.var = NoName THEN m
    ELSE [m EXCEPT ![edge.var] =
             EvalExpr(m, CHOOSE e \in Exprs :
                             write_code(Translator, globalsdfg, e) = edge.val)]

\* The value of an index of an occurrence, and of an entry of a subset.
IndexValue(m, idx) == IF idx.k = "sym" THEN m[idx.s] ELSE idx.v

DimValue(m, d) == IF d.s # "" THEN m[d.s] ELSE d.b

\* What a tasklet reads through a memlet: the element the subset names, or,
\* handed the whole container, the element its code indexes.
Load(m, memlet, indices) ==
    CASE memlet.subset.kind = "whole" -> m[memlet.data]
      [] memlet.subset.kind = "zero" -> m[memlet.data][1]
      [] memlet.subset.kind = "range" -> m[memlet.data][DimValue(m, memlet.subset.r[1])]
      [] OTHER -> IF indices = <<>> THEN m[memlet.data]
                  ELSE m[memlet.data][IndexValue(m, indices[1])]

\* What a tasklet writes through a memlet.
Store(m, memlet, indices, value) ==
    CASE memlet.subset.kind = "whole" -> [m EXCEPT ![memlet.data] = value]
      [] memlet.subset.kind = "zero" -> [m EXCEPT ![memlet.data][1] = value]
      [] memlet.subset.kind = "range" ->
             [m EXCEPT ![memlet.data][DimValue(m, memlet.subset.r[1])] = value]
      [] OTHER -> IF indices = <<>> THEN [m EXCEPT ![memlet.data] = value]
                  ELSE [m EXCEPT ![memlet.data][IndexValue(m, indices[1])] = value]

\* The memlets of the node k in the direction dir, in the order they were added.
MemletsOf(k, dir) ==
    Filter(TopGraph.memlets, LAMBDA x : x.node = k /\ x.dir = dir)

\* The tasklet k runs the assignment it was written from: the target gets
\* the constant plus the operands, each read through its port.
RunTasklet(m, k) ==
    LET stmt == CHOOSE n \in Descendants(program) :
                    n.class = "BinOp" /\ n.line = TopGraph.nodes[k].line
        reads == Filter(stmt.reads, LAMBDA o : o.name \notin TopGraph.symbols)
        ins == MemletsOf(k, "in")
        outs == MemletsOf(k, "out")
        RECURSIVE sum(_)
        sum(j) == IF j > Len(reads) THEN stmt.k
                  ELSE Load(m, ins[j], reads[j].indices) + sum(j + 1)
        RECURSIVE write(_, _)
        write(m1, j) == IF j > Len(outs) THEN m1
                        ELSE write(Store(m1, outs[j], stmt.lval.indices, sum(1)), j + 1)
    IN write(m, 1)

\* The dataflow of the state s: its tasklets, in order.
RECURSIVE RunState(_, _, _)
RunState(m, s, k) ==
    IF k > Len(TopGraph.nodes) THEN m
    ELSE RunState(IF TopGraph.nodes[k].state = s /\ TopGraph.nodes[k].kind = "tasklet"
                  THEN RunTasklet(m, k) ELSE m,
                  s, k + 1)

\* The selection is lowered, and the generated program is handed its inputs.
MergeStmt ==
    /\ pc = "lowering"
    /\ program = <<>>
    /\ \E p \in MergePrograms :
          /\ Commit(translate_list(Numbered(p), globalsdfg, Translator))
          /\ program' = Numbered(p)
          /\ mem' \in MergeInputs(DeclaredNames(p))
    /\ pc' = IF raised' = "" THEN "executing" ELSE "failed"
    /\ at' = sdfgs'[globalsdfg].start_state
    /\ UNCHANGED <<previous, resolver>>

\* One step of the generated program: the dataflow of the current state,
\* then a transition whose guard holds, with its assignment.
Execute ==
    /\ pc = "executing"
    /\ \E i \in OutEdges(at) :
          /\ Enabled(RunState(mem, at, 1), TopGraph.edges[i])
          /\ mem' = Assign(RunState(mem, at, 1), TopGraph.edges[i])
          /\ at' = TopGraph.edges[i].dst
    /\ UNCHANGED <<sdfgs, last_sdfg_states, last_loop_continues, last_loop_breaks,
                   name_mapping, unallocated_arrays, views, last_call_expression,
                   call_args, raised, pc, contexts, module_vars,
                   registered_types, program, previous, resolver>>

\* The generated program ends in a state that no transition leaves.
Halt ==
    /\ pc = "executing"
    /\ OutEdges(at) = {}
    /\ mem' = RunState(mem, at, 1)
    /\ pc' = "finished"
    /\ UNCHANGED <<sdfgs, last_sdfg_states, last_loop_continues, last_loop_breaks,
                   name_mapping, unallocated_arrays, views, last_call_expression,
                   call_args, raised, contexts, module_vars,
                   registered_types, program, previous, resolver, at>>

NextMerge == MergeStmt \/ Execute \/ Halt

SpecMerge == Init /\ [][NextMerge]_vars

(***************************************************************************)
(* Properties                                                              *)
(***************************************************************************)

\* The statements that were lowered completely: all of them, or all but the
\* one that raised.
Lowered ==
    IF raised = "" THEN program ELSE SubSeq(program, 1, Len(program) - 1)

\* The states of the top-level graph with the given label.
StateIds(kind, line) ==
    {s \in 1..Len(TopGraph.states) : TopGraph.states[s] = [kind |-> kind, line |-> line]}

\* The states reached from S along transition edges, not going on from a
\* state of avoid.
RECURSIVE Reachable(_, _)
Reachable(S, avoid) ==
    LET step == S \cup {TopGraph.edges[i].dst :
                           i \in {j \in 1..Len(TopGraph.edges) :
                                     /\ TopGraph.edges[j].src \in S
                                     /\ TopGraph.edges[j].src \notin avoid}}
    IN IF step = S THEN S ELSE Reachable(step, avoid)

HasBreak(n) == \E d \in Descendants(<<n>>) : d.class = "Break"

\* Whether a guard text holds when its condition c evaluates to b.
GuardHolds(text, c, b) ==
    IF text = c THEN b
    ELSE IF text = "not (" \o c \o ")" THEN ~b
    ELSE text = Always

\* C1: lowering the same AST a second time, with a new translator and a new
\* top-level graph, yields the graphs of the first lowering: the same states,
\* edges, containers and nested graphs, and the same outcome.
C1_SecondLoweringIsIdentical ==
    pc = "relowered" =>
        /\ previous[1].sdfgs = sdfgs
        /\ previous[1].raised = raised

\* C2: the Guard state of every lowered if has exactly two outgoing edges,
\* one guarded by the condition text c and one by "not (c)", so whatever c
\* evaluates to exactly one of them is enabled.
C2_GuardHasTwoExclusiveEdges ==
    \A n \in Descendants(Lowered) :
        n.class = "If" =>
            /\ Cardinality(StateIds("GuardIf", n.line)) = 1
            /\ \A s \in StateIds("GuardIf", n.line) :
                  LET c == write_code(Translator, globalsdfg, n.cond)
                  IN /\ Cardinality(OutEdges(s)) = 2
                     /\ \E i \in OutEdges(s) : TopGraph.edges[i].cond = c
                     /\ \E i \in OutEdges(s) :
                           TopGraph.edges[i].cond = "not (" \o c \o ")"
                     /\ \A b \in BOOLEAN :
                           Cardinality({i \in OutEdges(s) :
                                           GuardHolds(TopGraph.edges[i].cond, c, b)}) = 1

\* C2 happens: an if with an else branch was lowered without an error.
C2_IfElseLowered ==
    /\ raised = ""
    /\ \E n \in Descendants(program) :
          /\ n.class = "If"
          /\ n.body_else # <<>>
          /\ StateIds("GuardIf", n.line) # {}
          /\ StateIds("BodyElseStart", n.line) # {}

\* C3: for every lowered if whose branches contain no break, the then-path
\* and the else-path (or the negated-guard edge when there is no else) lead
\* to the Merge state of that if, and the tail after the if is that state.
C3_BranchesConverge ==
    /\ \A n \in Descendants(Lowered) :
          (n.class = "If" /\ ~HasBreak(n)) =>
              \E m \in StateIds("MergeState", n.line) :
                  /\ \A t \in StateIds("BodyIfStart", n.line) : m \in Reachable({t}, {})
                  /\ IF n.body_else # <<>>
                     THEN \A e \in StateIds("BodyElseStart", n.line) :
                              m \in Reachable({e}, {})
                     ELSE \E s \in StateIds("GuardIf", n.line) :
                              \E i \in OutEdges(s) :
                                  /\ TopGraph.edges[i].dst = m
                                  /\ TopGraph.edges[i].cond =
                                         "not (" \o write_code(Translator, globalsdfg, n.cond)
                                                 \o ")"
    /\ (/\ raised = ""
        /\ program # <<>>
        /\ program[Len(program)].class = "If"
        /\ ~HasBreak(program[Len(program)]))
           => last_sdfg_states[globalsdfg] \in StateIds("MergeState", Len(program))

\* The label of the tail state after the statement n, lowered from the tail
\* labelled entry.
ExitLabel(n, entry) ==
    CASE n.class = "If" -> [kind |-> "MergeState", line |-> n.line]
      [] n.class = "For" -> [kind |-> "MergeFOR", line |-> n.line]
      [] n.class = "BinOp" -> [kind |-> "_state_l", line |-> n.line]
      [] OTHER -> entry

\* The breaks below the statements l, lowered from the tail labelled entry
\* inside the loop of the given line (0: no loop): the label of the state
\* each break is issued in, and the line of its loop.
RECURSIVE BreakSites(_, _, _)
BreakSites(l, entry, line) ==
    IF l = <<>> THEN {}
    ELSE LET n == Head(l)
         IN (CASE n.class = "Break" ->
                      IF line = 0 THEN {} ELSE {[state |-> entry, loop |-> line]}
               [] n.class = "If" ->
                      BreakSites(n.body, [kind |-> "BodyIfStart", line |-> n.line], line)
                      \cup BreakSites(n.body_else,
                                      [kind |-> "BodyElseStart", line |-> n.line], line)
               [] n.class = "For" ->
                      BreakSites(n.body, [kind |-> "BeginLoopFOR", line |-> n.line], n.line)
               [] OTHER -> {})
            \cup BreakSites(Tail(l), ExitLabel(n, entry), line)

\* C4: the state a break is issued in has an edge to the Merge state of the
\* enclosing loop, and no path from it reaches the loop's EndLoop or Guard
\* state without passing through that Merge state.
C4_BreakLeavesTheLoop ==
    \A b \in BreakSites(Lowered, [kind |-> "", line |-> 0], 0) :
        \A s \in StateIds(b.state.kind, b.state.line) :
            \A m \in StateIds("MergeFOR", b.loop) :
                /\ \E i \in OutEdges(s) : TopGraph.edges[i].dst = m
                /\ Reachable({s}, {m})
                       \cap (StateIds("EndLoopFOR", b.loop) \cup StateIds("GuardFOR", b.loop))
                   = {}

\* The k-th smallest element of a set of numbers, and the rank of an element.
Nth(S, k) == CHOOSE x \in S : Cardinality({y \in S : y < x}) = k - 1

Rank(S, x) == Cardinality({y \in S : y <= x})

\* Whether the j-th statement was lowered completely.
Done(j) == j < Len(program) \/ raised = ""

\* The subscripted arguments of the j-th statement whose array is declared
\* with as many axes as the argument has indices.
SliceArgs(j) ==
    IF program[j].class # "Call" THEN {}
    ELSE {v \in {call_args[program[j].cid].args[i] :
                    i \in 1..Len(call_args[program[j].cid].args)} :
             /\ v.kind = "subscript"
             /\ v.name \in Keys(name_mapping[globalsdfg])
             /\ Len(array_of(Translator, globalsdfg, write_name(Translator, globalsdfg,
                                                                 v.name)).shape)
                    = Len(v.indices)}

HasRange(v) == \E d \in 1..Len(v.indices) : v.indices[d].k = "RANGE"

\* The calls of a procedure with an array-slice argument.
SliceCalls ==
    {j \in 1..Len(program) :
        /\ SliceArgs(j) # {}
        /\ program[j].callee \in functions_and_subroutines(Translator)
        /\ find_definition(Translator, program[j].callee).has_exec
        /\ Len(call_args[program[j].cid].args)
               = Len(find_definition(Translator, program[j].callee).args)}

\* The largest extent of an axis of the arrays the programs declare.
MaxExtent == 3

\* The elements of an array of the given shape that the indices select.
Region(indices, shape) ==
    {t \in [1..Len(shape) -> 1..MaxExtent] :
        \A d \in 1..Len(shape) :
            /\ t[d] <= shape[d]
            /\ CASE indices[d].k = "ALL" -> TRUE
                 [] indices[d].k = "RANGE" -> indices[d].v <= t[d] /\ t[d] <= indices[d].e
                 [] OTHER -> t[d] = indices[d].v}

\* The elements of an array of the given shape that a subset covers.
Cells(subset, shape) ==
    {t \in [1..Len(shape) -> 1..MaxExtent] :
        \A d \in 1..Len(shape) :
            /\ t[d] <= shape[d]
            /\ subset.r[d].b <= t[d]
            /\ t[d] <= subset.r[d].e}

\* The edges between the array of the slice v and the view made for the
\* call j: views are numbered in the order the calls make them.
ViewEdges(j, v, dir) ==
    {i \in 1..Len(TopGraph.memlets) :
        /\ TopGraph.memlets[i].dir = dir
        /\ TopGraph.memlets[i].data = write_name(Translator, globalsdfg, v.name)
        /\ TopGraph.memlets[i].view =
               write_name(Translator, globalsdfg, v.name) \o "_view_"
                   \o ToString(Rank({c \in SliceCalls : Done(c)}, j) - 1)}

\* The view of the slice v in the call j is filled from and written back to
\* exactly the elements the slice selects.
ViewCoversRegion(j, v) ==
    LET shape == array_of(Translator, globalsdfg,
                          write_name(Translator, globalsdfg, v.name)).shape
    IN /\ Cardinality(ViewEdges(j, v, "fromview")) = 1
       /\ \A i \in ViewEdges(j, v, "fromview") \cup ViewEdges(j, v, "toview") :
             Cells(TopGraph.memlets[i].subset, shape) = Region(v.indices, shape)

ProcCalls ==
    {j \in 1..Len(program) :
        /\ program[j].cid # 0
        /\ program[j].callee \in functions_and_subroutines(Translator)
        /\ find_definition(Translator, program[j].callee).has_exec}

\* The nested-graph nodes of the top-level graph.
Nsdfgs == {k \in 1..Len(TopGraph.nodes) : TopGraph.nodes[k].kind = "nsdfg"}

\* The nested-graph node of the call j: calls make them in order.
NodeOfCall(j) == Nth(Nsdfgs, Rank({c \in ProcCalls : Done(c)}, j))

\* The tasklets of the graph new, written from line, that write the container inner.
AssignsTo(new, line, inner) ==
    {k \in 1..Len(sdfgs[new].nodes) :
        /\ sdfgs[new].nodes[k].kind = "tasklet"
        /\ sdfgs[new].nodes[k].line = line
        /\ sdfgs[new].nodes[k].outs = <<inner \o "_out">>}

\* A container of the top-level graph and the views made of it.
ContainerOrViews(name) ==
    {name} \cup {TopGraph.memlets[i].view :
                    i \in {x \in 1..Len(TopGraph.memlets) :
                              /\ TopGraph.memlets[x].data = name
                              /\ TopGraph.memlets[x].view # NoName}}

\* The argument a of the call j, at the position of formal, is paired with it.
ArgumentPaired(j, a, formal) ==
    LET d == find_definition(Translator, program[j].callee)
        k == NodeOfCall(j)
        new == TopGraph.nodes[k].sdfg
        inner == Get(name_mapping[new], formal, NoName)
        used == used_names(d, Translator)
    IN CASE a.kind = "literal" ->
                /\ Cardinality(AssignsTo(new, d.line, inner)) = 1
                /\ \A t \in AssignsTo(new, d.line, inner) :
                      sdfgs[new].nodes[t].code.k = a.value
         [] a.name \in TopGraph.symbols ->
                Cardinality(AssignsTo(new, d.line, inner))
                    = IF a.name # formal THEN 1 ELSE 0
         [] OTHER ->
                /\ inner # NoName
                /\ (Member(used.read, formal) \/ Member(used.write, formal)) =>
                       \E i \in 1..Len(TopGraph.memlets) :
                           /\ TopGraph.memlets[i].node = k
                           /\ TopGraph.memlets[i].conn = inner
                           /\ TopGraph.memlets[i].data
                                  \in ContainerOrViews(write_name(Translator, globalsdfg,
                                                                  a.name))

\* C6: every argument of a lowered call is paired with the formal at its
\* position: a literal yields exactly one assignment formal = literal in the
\* nested graph, a symbol yields one only when the names differ, and a
\* container is connected, itself, to the port of its formal.
C6_ArgumentsPairedByPosition ==
    pc # "relowered" =>
        \A j \in {c \in ProcCalls : Done(c)} :
            \A i \in 1..Len(call_args[program[j].cid].args) :
                i <= Len(find_definition(Translator, program[j].callee).args) =>
                    ArgumentPaired(j, call_args[program[j].cid].args[i],
                                   find_definition(Translator, program[j].callee).args[i])

\* The result of the selection at the element k.
Selected(k) ==
    LET inner == IF mem["mask1"][k] = 1 THEN mem["A"][k] ELSE mem["B"][k]
    IN IF "mask2" \in DOMAIN mem
       THEN IF mem["mask2"][k] = 1 THEN inner ELSE mem["C"][k]
       ELSE inner

\* C7: the program generated for res = MERGE(A, B, mask), and for
\* res = MERGE(MERGE(A, B, mask1), C, mask2), always has a transition to
\* take until it ends, and ends with res[k] = A[k] where the mask holds and
\* B[k] where it does not (for the nested selection: their composition),
\* for every element k and every mask.
C7_MergeSelectsPerElement ==
    /\ pc = "executing" =>
           \/ OutEdges(at) = {}
           \/ \E i \in OutEdges(at) : Enabled(RunState(mem, at, 1), TopGraph.edges[i])
    /\ pc = "finished" =>
           \A k \in 1..MergeLen : mem[write_name(Translator, globalsdfg, "res")][k] = Selected(k)

\* C7 happens: a nested selection ran to its end on masks that select from
\* all of A, B and C.
C7_NestedSelectionFinished ==
    /\ pc = "finished"
    /\ "mask2" \in DOMAIN mem
    /\ \E k \in 1..MergeLen : mem["mask2"][k] = 0
    /\ \E k \in 1..MergeLen : mem["mask2"][k] = 1 /\ mem["mask1"][k] = 1
    /\ \E k \in 1..MergeLen : mem["mask2"][k] = 1 /\ mem["mask1"][k] = 0

\* The error of the sanity check on the number of arguments.
ArityError == "ValueError: number of parameters"

\* The number of arguments fits the definition d: as many as formals, or one
\* more when the result type is not void.
ArityFits(j, d) ==
    \/ Len(call_args[program[j].cid].args) = Len(d.args)
    \/ Len(call_args[program[j].cid].args) = Len(d.args) + 1 /\ ~d.void

\* The statements that call a procedure, with or without an execution part.
DefinedCalls ==
    {j \in 1..Len(program) :
        /\ program[j].cid # 0
        /\ program[j].callee \in functions_and_subroutines(Translator)}

C9_UnknownOnlyWhenUnbound ==
    \A v \in Keys(name_mapping[globalsdfg]) :
        raised # "ValueError: Unknown variable " \o v

\* C10: declaring a name that the graph's name mapping already binds changes
\* neither the name mapping, nor the containers, nor the worklist of
\* unallocated arrays, whatever the form of the declaration.
C10_RedeclarationIsNoOp ==
    [][(/\ Len(program') = Len(program) + 1
        /\ program'[Len(program')].class = "VarDecl"
        /\ program'[Len(program')].name \in Keys(name_mapping[globalsdfg]))
           => UNCHANGED <<name_mapping, sdfgs, unallocated_arrays>>]_vars

\* The statement a step hands to translate, when the step lowers one of the
\* given class.
Lowers(class) ==
    /\ Len(program') = Len(program) + 1
    /\ program'[Len(program')].class = class

\* The positions of the worklist entries with the given name, in any graph.
EntriesNamed(name) ==
    {i \in 1..Len(unallocated_arrays) : unallocated_arrays[i].name = name}

\* The positions of the worklist entries an allocate of the name in the
\* top-level graph matches: the same name and the same graph.
EntriesMatching(name) ==
    {i \in EntriesNamed(name) : unallocated_arrays[i].sdfg = globalsdfg}

\* C11: an allocatable declaration creates no container and records one
\* worklist entry; an allocate statement materializes the container from the
\* one entry with its name and graph and removes it, and does nothing when
\* no entry matches; when more than one entry matches the allocate target,
\* or the pointer name of a pointer assignment, the statement fails and
\* neither materializes nor removes an entry.
C11_WorklistIsUnambiguous ==
    [][/\ (Lowers("VarDecl") /\ program'[Len(program')].alloc)
              => /\ sdfgs' = sdfgs
                 /\ Len(unallocated_arrays') = Len(unallocated_arrays) + 1
                 /\ SubSeq(unallocated_arrays', 1, Len(unallocated_arrays)) = unallocated_arrays
                 /\ unallocated_arrays'[Len(unallocated_arrays')].name
                        = program'[Len(program')].name
                 /\ unallocated_arrays'[Len(unallocated_arrays')].sdfg = globalsdfg
       /\ Lowers("Allocate")
              => LET name == program'[Len(program')].name
                     n == Cardinality(EntriesMatching(name))
                 IN CASE n > 1 -> /\ raised' # ""
                                  /\ unallocated_arrays' = unallocated_arrays
                                  /\ sdfgs' = sdfgs
                      [] n = 1 -> /\ raised' = ""
                                  /\ Len(unallocated_arrays') = Len(unallocated_arrays) - 1
                                  /\ \A i \in 1..Len(unallocated_arrays') :
                                         unallocated_arrays'[i].name # name
                                  /\ Len(sdfgs'[globalsdfg].arrays)
                                         = Len(sdfgs[globalsdfg].arrays) + 1
                      [] OTHER -> /\ unallocated_arrays' = unallocated_arrays
                                  /\ sdfgs' = sdfgs
       /\ (Lowers("Pointer")
           /\ Cardinality(EntriesNamed(program'[Len(program')].name)) > 1)
              => /\ raised' # ""
                 /\ unallocated_arrays' = unallocated_arrays]_vars

\* The descriptors of every graph, and the components of every registered
\* derived type.
Descriptors ==
    UNION {{sdfgs[g].arrays[i].v : i \in 1..Len(sdfgs[g].arrays)} : g \in 1..Len(sdfgs)}
        \cup UNION {{registered_types[t].v[i].v : i \in 1..Len(registered_types[t].v)} :
                        t \in 1..Len(registered_types)}

\* C12: every descriptor the translator creates, in any graph and in any
\* derived type, whether a scalar, an array or a view, has a shape, strides
\* and offsets of the same length.
C12_DescriptorRanksAgree ==
    \A d \in Descriptors :
        /\ Len(d.shape) = Len(d.strides)
        /\ Len(d.shape) = Len(d.offset)

\* C12 happens: a subscripted argument is bound behind a view in the
\* top-level graph, and inside the procedure whole a formal is bound to a
\* container that only the top-level graph has.
C12_ViewAndGlobalFormalBound ==
    /\ raised = ""
    /\ \E i \in 1..Len(sdfgs[globalsdfg].arrays) : sdfgs[globalsdfg].arrays[i].v.type = "View"
    /\ \E g \in 1..Len(sdfgs) :
          /\ sdfgs[g].name = "whole"
          /\ sdfgs[g].arrays = <<>>
          /\ g < Len(sdfgs)
          /\ \E i \in 1..Len(sdfgs[g + 1].arrays) : sdfgs[g + 1].arrays[i].v.type = "Array"

\* C13: a statement that has no lowering (a write statement, a symbol-array
\* declaration, a node of a class the dispatch table does not have) ends the
\* translation with an error: it is never skipped with the translation
\* going on.
C13_UnsupportedFailsExplicitly ==
    [][(\E node \in UnsupportedNodes : Lowers(node.class)) => raised' # ""]_vars

\* The modules whose files were parsed, and the modules they use.
ParsedModules == {resolver.children[c] : c \in 1..Len(resolver.children)}

UsedModules ==
    UNION {{resolver.corpus.modules[m].uses[k].module :
               k \in 1..Len(resolver.corpus.modules[m].uses)} : m \in ParsedModules}

\* Every used module is a node of the dependency graph, with an edge from
\* each parsed module that uses it.
UsesAreInTheGraph ==
    \A m \in ParsedModules :
        \A k \in 1..Len(resolver.corpus.modules[m].uses) :
            \E e \in 1..Len(resolver.dep_graph.edges) :
                /\ resolver.dep_graph.edges[e].src = m
                /\ resolver.dep_graph.edges[e].dst = resolver.corpus.modules[m].uses[k].module
                /\ has_node(resolver.dep_graph, resolver.dep_graph.edges[e].dst)

\* C14: after the closure is built, a used module whose file (under the
\* name the search gives it: the module's name, except for the two modules
\* that live in a file of another name) is not in the corpus as .f90 or
\* .F90 is on the missing-modules list exactly once, however many modules
\* use it; nothing is raised; every other used module is parsed and every
\* used module is in the dependency graph.
C14_MissingModulesAreCollected ==
    resolver # <<>> /\ resolver.phase = "closed" =>
        /\ resolver.raised = ""
        /\ UsesAreInTheGraph
        /\ \A u \in UsedModules :
              IF found(u, resolver.corpus.source_list)
              THEN u \in ParsedModules /\ Count(resolver.missing_modules, u) = 0
              ELSE u \notin ParsedModules /\ Count(resolver.missing_modules, u) = 1

\* C14 happens: main and a both use yomhook, whose file is not in the
\* corpus; it is on the list once, and the module b that a uses is parsed.
C14_SharedModuleMissing ==
    /\ resolver # <<>>
    /\ resolver.phase = "closed"
    /\ resolver.missing_modules = <<"yomhook">>
    /\ \E k \in 1..Len(resolver.corpus.modules["a"].uses) :
          resolver.corpus.modules["a"].uses[k].module = "yomhook"
    /\ \E k \in 1..Len(resolver.corpus.modules["main"].uses) :
          resolver.corpus.modules["main"].uses[k].module = "yomhook"
    /\ {"a", "b"} \subseteq ParsedModules

\* C14 as stated, with the file named after the module: a used module
\* without a file <module>.f90 or <module>.F90 is on the missing-modules
\* list exactly once, nothing is raised, and every used module that has
\* such a file is parsed.
C14_MissingWithoutFileOfItsName ==
    resolver # <<>> /\ resolver.phase = "closed" =>
        /\ resolver.raised = ""
        /\ UsesAreInTheGraph
        /\ \A u \in UsedModules :
              IF u \o ".f90" \in resolver.corpus.source_list
                 \/ u \o ".F90" \in resolver.corpus.source_list
              THEN u \in ParsedModules
              ELSE Count(resolver.missing_modules, u) = 1

\* The parse order as it was before its last element was popped.
FullOrder == Append(resolver.parse_order, resolver.top_level_ast)

\* The edges of the live graph.
LiveEdges == {resolver.simple_graph.edges[e] : e \in 1..Len(resolver.simple_graph.edges)}

\* C15: once the parse order is built, nothing was raised, the module
\* popped as the top level is the entry module, and for every edge (user,
\* used) of the live graph the used module comes before the user; this for
\* every corpus, also one whose entry module has no live outgoing edge.
C15_DependenciesBeforeDependents ==
    resolver # <<>> /\ resolver.phase \in {"ordered", "failed"} =>
        /\ resolver.raised = ""
        /\ resolver.top_level_ast = entry_module
        /\ \A e \in LiveEdges : IndexOf(FullOrder, e.dst) < IndexOf(FullOrder, e.src)
        /\ \A e \in LiveEdges : IndexOf(FullOrder, e.dst) > 0

\* The procedures of a module of the corpus, by name.
ProcsOf(m) ==
    {resolver.corpus.modules[m].procs[k] : k \in 1..Len(resolver.corpus.modules[m].procs)}

\* The use statements of a module of the corpus.
UsesOf(m) ==
    {resolver.corpus.modules[m].uses[k] : k \in 1..Len(resolver.corpus.modules[m].uses)}

\* Whether the use statement u brings the name x of its module into scope.
Imports(u, x) ==
    IF u.all THEN u.module \in ParsedModules /\ \E q \in ProcsOf(u.module) : q.name = x
    ELSE x \in u.names

\* The procedures reachable from the entry module, as pairs (module,
\* procedure): those of the entry module, those of the same module that a
\* reachable procedure refers to, and those a reachable procedure refers
\* to through an import of its module.
RECURSIVE ReachableProcs(_)
ReachableProcs(R) ==
    LET step ==
            R \cup UNION {{<<r[1], q>> : q \in {p \in ProcsOf(r[1]) : p.name \in r[2].names}} :
                             r \in R}
        imported ==
            UNION {UNION {{<<u.module, q>> :
                              q \in {p \in ProcsOf(u.module) :
                                        /\ u.module \in ParsedModules
                                        /\ p.name \in r[2].names
                                        /\ Imports(u, p.name)}} : u \in UsesOf(r[1])} : r \in R}
        next == step \cup imported
    IN IF next = R THEN R ELSE ReachableProcs(next)

LiveProcs == ReachableProcs({<<entry_module, p>> : p \in ProcsOf(entry_module)})

\* The imports that a reachable procedure needs: the module that imports,
\* its use statement and the name.
NeededImports ==
    UNION {UNION {{[user |-> r[1], use |-> u, name |-> x] :
                      x \in {y \in r[2].names : Imports(u, y)}} : u \in UsesOf(r[1])} :
              r \in LiveProcs}

\* The modules the live graph reaches from the entry module.
RECURSIVE LiveFrom(_)
LiveFrom(S) ==
    LET next == S \cup {e.dst : e \in {d \in LiveEdges : d.src \in S}}
    IN IF next = S THEN S ELSE LiveFrom(next)

\* C16: after the pruning pass every module of the live graph is reachable
\* from the entry module through live edges, and every import that a
\* procedure reachable from the entry module needs is still there: the
\* live graph has the edge from the importing module to the imported one,
\* and the edge keeps the name, also when the procedure is reached only
\* through a call inside its module and when the module is imported in full.
C16_LiveGraphKeepsWhatIsNeeded ==
    resolver # <<>> /\ resolver.phase = "pruned" =>
        /\ \A k \in 1..Len(resolver.simple_graph.nodes) :
              resolver.simple_graph.nodes[k].name \in LiveFrom({entry_module})
        /\ \A n \in NeededImports :
              \E e \in LiveEdges :
                  /\ e.src = n.user
                  /\ e.dst = n.use.module
                  /\ n.use.all \/ n.name \in e.names


\* The edges of graph g at the invocation node k in direction dir ("in":
\* container -> connector, "out": connector -> container) at connector c.
EdgesAt(g, k, dir, c) ==
    {j \in 1..Len(sdfgs[g].memlets) :
        /\ sdfgs[g].memlets[j].node = k
        /\ sdfgs[g].memlets[j].dir = dir
        /\ sdfgs[g].memlets[j].conn = c}

\* The invocation nodes of nested graphs, as (graph, node) pairs.
InvocationNodes ==
    UNION {{<<g, k>> : k \in {n \in 1..Len(sdfgs[g].nodes) : sdfgs[g].nodes[n].kind = "nsdfg"}} :
              g \in 1..Len(sdfgs)}

\* The invocation node i is wired as its connectors say: one incoming edge
\* per input connector, one outgoing edge per output connector, no other edge.
WiredAsListed(i) ==
    LET n == sdfgs[i[1]].nodes[i[2]]
    IN /\ \A c \in {n.ins[x] : x \in 1..Len(n.ins)} : Cardinality(EdgesAt(i[1], i[2], "in", c)) = 1
       /\ \A c \in {n.outs[x] : x \in 1..Len(n.outs)} : Cardinality(EdgesAt(i[1], i[2], "out", c)) = 1
       /\ \A j \in 1..Len(sdfgs[i[1]].memlets) :
              sdfgs[i[1]].memlets[j].node = i[2] =>
                  /\ sdfgs[i[1]].memlets[j].dir = "in"
                         => sdfgs[i[1]].memlets[j].conn \in {n.ins[x] : x \in 1..Len(n.ins)}
                  /\ sdfgs[i[1]].memlets[j].dir = "out"
                         => sdfgs[i[1]].memlets[j].conn \in {n.outs[x] : x \in 1..Len(n.outs)}

\* C17: once a call is lowered, or stopped by an unbound local of
\* subroutine2sdfg, every invocation node has exactly one incoming edge per
\* connector its callee reads and one outgoing edge per connector its callee
\* writes, arguments and module variables alike, for any number of arguments.
C17_EveryConnectorHasItsEdge ==
    raised \in {"", "UnboundLocalError"} => \A i \in InvocationNodes : WiredAsListed(i)


\* The label of the tail state after the statements l, lowered from the tail
\* labelled entry.
RECURSIVE BodyExit(_, _)
BodyExit(l, entry) ==
    IF l = <<>> THEN entry ELSE BodyExit(Tail(l), ExitLabel(Head(l), entry))

\* The transition edges of the top-level graph from state u to state v.
EdgesBetween(u, v) ==
    {i \in 1..Len(TopGraph.edges) : TopGraph.edges[i].src = u /\ TopGraph.edges[i].dst = v}

\* The five states and the edges of the loop n, as forstmt2sdfg builds them.
LoopIsBuilt(n) ==
    LET c == write_code(Translator, globalsdfg, n.cond)
        v == loop_iter_name(Translator, globalsdfg, n.lval.name)
        tail == BodyExit(n.body, [kind |-> "BeginLoopFOR", line |-> n.line])
    IN \E b \in StateIds("BeginFOR", n.line), g \in StateIds("GuardFOR", n.line),
          m \in StateIds("MergeFOR", n.line), l \in StateIds("BeginLoopFOR", n.line),
          e \in StateIds("EndLoopFOR", n.line) :
           /\ \E i \in EdgesBetween(b, g) :
                  /\ TopGraph.edges[i].var = v
                  /\ TopGraph.edges[i].val = write_code(Translator, globalsdfg, n.init)
                  /\ TopGraph.edges[i].cond = Always
           /\ \E i \in EdgesBetween(g, l) :
                  TopGraph.edges[i].cond = c /\ TopGraph.edges[i].var = NoName
           /\ \E t \in StateIds(tail.kind, tail.line) : \E i \in EdgesBetween(t, e) :
                  TopGraph.edges[i].cond = Always /\ TopGraph.edges[i].var = NoName
           /\ \E i \in EdgesBetween(e, g) :
                  /\ TopGraph.edges[i].var = v
                  /\ TopGraph.edges[i].val = write_code(Translator, globalsdfg, n.iter)
                  /\ TopGraph.edges[i].cond = Always
           /\ \E i \in EdgesBetween(g, m) :
                  TopGraph.edges[i].cond = "not (" \o c \o ")" /\ TopGraph.edges[i].var = NoName
           /\ Cardinality(OutEdges(g)) = 2
           /\ v # NoName

\* C18: every lowered loop has the edges Begin->Guard with the initializing
\* assignment of the loop variable, Guard->BeginLoop guarded by the condition
\* c, tail of the body->EndLoop, EndLoop->Guard with the increment of the same
\* variable and Guard->Merge guarded by "not (c)"; the Guard has these two
\* outgoing edges only, and the tail after the loop is its Merge state.
C18_LoopHasItsFiveEdges ==
    /\ \A n \in Descendants(Lowered) : n.class = "For" => LoopIsBuilt(n)
    /\ (raised = "" /\ program # <<>> /\ program[Len(program)].class = "For")
           => last_sdfg_states[globalsdfg] \in StateIds("MergeFOR", Len(program))

\* C18 happens: a loop that holds another loop and a break was lowered
\* without an error.
C18_NestedLoopLowered ==
    /\ raised = ""
    /\ \E n \in Descendants(program) :
          /\ n.class = "For"
          /\ \E d \in Descendants(n.body) : d.class = "For"
          /\ HasBreak(n)
          /\ StateIds("EndLoopFOR", n.line) # {}


\* Every break below the statements l, lowered from the tail labelled entry:
\* the label of the state it is issued in and the line of the innermost loop
\* that encloses it (0: it is outside any loop).
RECURSIVE BreaksAt(_, _, _)
BreaksAt(l, entry, line) ==
    IF l = <<>> THEN {}
    ELSE LET n == Head(l)
         IN (CASE n.class = "Break" -> {[state |-> entry, loop |-> line]}
               [] n.class = "If" ->
                      BreaksAt(n.body, [kind |-> "BodyIfStart", line |-> n.line], line)
                      \cup BreaksAt(n.body_else,
                                    [kind |-> "BodyElseStart", line |-> n.line], line)
               [] n.class = "For" ->
                      BreaksAt(n.body, [kind |-> "BeginLoopFOR", line |-> n.line], n.line)
               [] OTHER -> {})
            \cup BreaksAt(Tail(l), ExitLabel(n, entry), line)

\* The Merge states of the lowered loops other than the loop of the given line.
OtherMerges(line) ==
    UNION {StateIds("MergeFOR", n.line) :
              n \in {d \in Descendants(Lowered) : d.class = "For" /\ d.line # line}}

\* C19: the state a break is issued in has an edge to the Merge state of the
\* innermost loop that encloses the break and to the Merge state of no other
\* loop; a break outside any loop gives its state no edge to a loop's Merge.
C19_BreakTargetsInnermostLoop ==
    \A b \in BreaksAt(Lowered, [kind |-> "", line |-> 0], 0) :
        \A s \in StateIds(b.state.kind, b.state.line) :
            /\ \A i \in OutEdges(s) : TopGraph.edges[i].dst \notin OtherMerges(b.loop)
            /\ b.loop # 0 =>
                   \E i \in OutEdges(s) :
                       TopGraph.edges[i].dst \in StateIds("MergeFOR", b.loop)


\* Whether the tail state after the statements l is the state their last
\* break was issued in: l ends with a break, followed at most by statements
\* that leave the tail alone.
RECURSIVE BreakTail(_)
BreakTail(l) ==
    /\ l # <<>>
    /\ LET n == l[Len(l)]
           none == [kind |-> "", line |-> 0]
       IN IF n.class = "Break" THEN TRUE
          ELSE ExitLabel(n, none) = none /\ BreakTail(SubSeq(l, 1, Len(l) - 1))

\* Whether the branch-end state of the given kind of the if at line has an
\* edge to the if's Merge state m.
BranchEndLinked(kind, line, m) ==
    \E e \in StateIds(kind, line) : EdgesBetween(e, m) # {}

\* C20: in every lowered if, the then-branch has a branch-end -> Merge edge
\* exactly when its tail is not a break source, and so has the else-branch;
\* the state a break was issued in has no edge to the if's Merge state.
C20_BranchEndLinkedUnlessBreak ==
    \A n \in Descendants(Lowered) :
        n.class = "If" =>
            \A m \in StateIds("MergeState", n.line) :
                /\ BranchEndLinked("BodyIfEnd", n.line, m) <=> ~BreakTail(n.body)
                /\ n.body_else # <<>> =>
                       (BranchEndLinked("BodyElseEnd", n.line, m) <=> ~BreakTail(n.body_else))
                /\ BreakTail(n.body) =>
                       \A t \in StateIds("BodyIfStart", n.line) : EdgesBetween(t, m) = {}
                /\ BreakTail(n.body_else) =>
                       \A t \in StateIds("BodyElseStart", n.line) : EdgesBetween(t, m) = {}


\* The axes a subscripted argument selects in full, and the entries of a
\* list at the axes S, in axis order.
SelectAll(v) == {d \in 1..Len(v.indices) : v.indices[d].k = "ALL"}

AtAxes(l, S) == [k \in 1..Cardinality(S) |-> l[Nth(S, k)]]

\* The edges between a container and a view in the state of the call j.
ViewEdgesOf(j, data, dir) ==
    {m \in 1..Len(TopGraph.memlets) :
        /\ TopGraph.memlets[m].state = TopGraph.nodes[NodeOfCall(j)].state
        /\ TopGraph.memlets[m].dir = dir
        /\ TopGraph.memlets[m].data = data}

\* The view containers of the top-level graph.
ViewContainers ==
    {k \in 1..Len(TopGraph.arrays) : TopGraph.arrays[k].v.type = "View"}

\* The i-th argument of the call j is bound as an indexed argument with the
\* selected axes (viewed = TRUE: behind a view; FALSE: as one element), or
\* as a whole container.
ArgBound(j, i, viewed) ==
    LET v == call_args[program[j].cid].args[i]
        callee == find_definition(Translator, program[j].callee)
        f == callee.args[i]
        used == used_names(callee, Translator)
        base == array_of(Translator, globalsdfg, v.name)
        formal == array_of(Translator, TopGraph.nodes[NodeOfCall(j)].sdfg, f)
        shape == AtAxes(base.shape, SelectAll(v))
        strides == AtAxes(base.strides, SelectAll(v))
        toview == ViewEdgesOf(j, v.name, "toview")
        fromview == ViewEdgesOf(j, v.name, "fromview")
    IN IF v.kind = "subscript" /\ viewed
       THEN /\ formal.type = "Array"
            /\ formal.shape = shape
            /\ formal.strides = strides
            /\ Cardinality(toview) = IF Member(used.read, f) THEN 1 ELSE 0
            /\ Cardinality(fromview) = IF Member(used.write, f) THEN 1 ELSE 0
            /\ toview \cup fromview # {}
            /\ \A m \in toview \cup fromview :
                   LET view == array_of(Translator, globalsdfg, TopGraph.memlets[m].view)
                   IN /\ view.type = "View"
                      /\ view.shape = shape
                      /\ view.strides = strides
       ELSE /\ toview = {}
            /\ fromview = {}
            /\ IF v.kind = "subscript" THEN formal.type = "Scalar"
               ELSE /\ formal.type = base.type
                    /\ formal.shape = base.shape
                    /\ formal.strides = base.strides

\* The calls of SpecView that were lowered completely, and their arguments.
BoundArgs ==
    UNION {{<<j, i>> : i \in 1..Len(call_args[program[j].cid].args)} :
              j \in {c \in ProcCalls : Done(c) /\ program[c].cid \in ViewCalls}}

\* The selected axes of the argument a = <<j, i>> hold more than one element.
SeveralSelected(a) ==
    LET v == call_args[program[a[1]].cid].args[a[2]]
    IN AtAxes(array_of(Translator, globalsdfg, v.name).shape, SelectAll(v))
           \notin {<<>>, <<1>>}

Tasklets == {k \in 1..Len(TopGraph.nodes) : TopGraph.nodes[k].kind = "tasklet"}

\* The assignment the compute unit k was written from.
StmtOf(k) ==
    CHOOSE n \in Descendants(program) : n.class = "BinOp" /\ n.line = TopGraph.nodes[k].line

\* The occurrences of an assignment that get a port: those of containers,
\* not of symbols.
PortOccurrences(occs) ==
    Filter(occs, LAMBDA o : /\ o.name \notin TopGraph.symbols
                            /\ write_name(Translator, globalsdfg, o.name)
                                   \in Keys(TopGraph.arrays))

\* The subsets an edge may carry for the occurrence o: a subset that stands
\* for the whole container when o has no indices (no subset at all, the
\* empty subset of a scalar, every axis in full), the range derived from its
\* indices when it has them (element 0 of a one-element array).
SubsetsOf(o) ==
    LET shape == array_of(Translator, globalsdfg,
                          write_name(Translator, globalsdfg, o.name)).shape
    IN IF shape = <<>> THEN {Whole, NoneSubset}
       ELSE IF shape = <<1>> THEN {Zero}
       ELSE IF o.indices = <<>>
       THEN {NoneSubset, generate_memlet(Translator, globalsdfg, o)}
       ELSE {generate_memlet(Translator, globalsdfg, o)}

\* The edges of the compute unit k in the direction dir carry, in order, the
\* subsets of the occurrences occs.
PortsCarry(k, dir, occs) ==
    /\ Len(MemletsOf(k, dir)) = Len(occs)
    /\ \A i \in 1..Len(occs) : MemletsOf(k, dir)[i].subset \in SubsetsOf(occs[i])

\* C22: on every port of the compute unit of an assignment, input or
\* output, the edge's subset is the whole container when the occurrence has
\* no indices and the range derived from its indices when it has them.
C22_EveryPortCarriesItsRange ==
    \A k \in Tasklets :
        /\ PortsCarry(k, "out", PortOccurrences(FindOutputs(StmtOf(k))))
        /\ PortsCarry(k, "in", PortOccurrences(FindInputs(StmtOf(k))))

\* The distinct containers the occurrences occs are bound to.
ContainersOf(occs) ==
    {write_name(Translator, globalsdfg, occs[i].name) : i \in 1..Len(occs)}
        \cap Keys(TopGraph.arrays)

\* The ports of the compute unit k, inputs then outputs.
PortsOf(k) == TopGraph.nodes[k].ins \o TopGraph.nodes[k].outs

\* The containers wired to the compute unit k in the direction dir.
WiredTo(k, dir) == {MemletsOf(k, dir)[i].data : i \in 1..Len(MemletsOf(k, dir))}

\* C23: the compute unit of an assignment has one input port per occurrence
\* of a read container and one output port per distinct written container,
\* each with its edge; no port is wired to a run-time symbol; the port names
\* of one compute unit are pairwise distinct, so that a container both read
\* and written has an input port and an output port of different names.
C23_OnePortPerOccurrence ==
    \A k \in Tasklets :
        LET n == TopGraph.nodes[k]
            reads == PortOccurrences(FindInputs(StmtOf(k)))
        IN /\ Len(n.ins) = Len(reads)
           /\ Len(MemletsOf(k, "in")) = Len(reads)
           /\ \A i \in 1..Len(reads) :
                  /\ MemletsOf(k, "in")[i].conn = n.ins[i]
                  /\ MemletsOf(k, "in")[i].data
                        = write_name(Translator, globalsdfg, reads[i].name)
           /\ Len(n.outs) = Cardinality(ContainersOf(FindOutputs(StmtOf(k))))
           /\ WiredTo(k, "out") = ContainersOf(FindOutputs(StmtOf(k)))
           /\ {MemletsOf(k, "out")[i].conn : i \in 1..Len(MemletsOf(k, "out"))}
                 = {n.outs[i] : i \in 1..Len(n.outs)}
           /\ (WiredTo(k, "in") \cup WiredTo(k, "out")) \cap TopGraph.symbols = {}
           /\ \A i, j \in 1..Len(PortsOf(k)) : i # j => PortsOf(k)[i] # PortsOf(k)[j]

\* C23 witness: a compute unit that reads one container twice and writes it
\* (s = s + s).
C23_ReadTwiceAndWritten ==
    \E k \in Tasklets :
        /\ Len(TopGraph.nodes[k].ins) = 2
        /\ WiredTo(k, "in") = WiredTo(k, "out")
        /\ Len(TopGraph.nodes[k].outs) = 1

\* The compute units of the kind made for the statement j: "_state_l" for an
\* assignment, "_state" for a call.
UnitsOf(j, kind) ==
    {k \in Tasklets : /\ TopGraph.nodes[k].line = program[j].line
                      /\ TopGraph.states[TopGraph.nodes[k].state].kind = kind}

\* The assignment j was lowered as its call: no compute unit of its own, the
\* target handed to the call as its result, and the call lowered by
\* call2sdfg: a nested graph of a known procedure, with the target as the
\* last argument, or the compute unit of the call with a port for the target.
LoweredAsCall(j) ==
    LET n == program[j]
    IN /\ UnitsOf(j, "_state_l") = {}
       /\ call_args[n.cid].hasret
       /\ IF n.callee \in functions_and_subroutines(Translator)
          THEN /\ call_args[n.cid].args = Append(InitialCalls[n.cid].args, OccArg(n.lval))
               /\ \E k \in Nsdfgs : sdfgs[TopGraph.nodes[k].sdfg].name = n.callee
               /\ UnitsOf(j, "_state") = {}
          ELSE /\ Cardinality(UnitsOf(j, "_state")) = 1
               /\ \A k \in UnitsOf(j, "_state") :
                      /\ Count(TopGraph.nodes[k].ins, n.lval.name) = 1
                      /\ Count(TopGraph.nodes[k].outs, n.lval.name \o "_out") = 1

\* The assignment j was lowered as exactly one compute unit, its calls left
\* inside it.
LoweredAsUnit(j) ==
    LET n == program[j]
    IN /\ Cardinality(UnitsOf(j, "_state_l")) = 1
       /\ UnitsOf(j, "_state") = {}
       /\ n.cid # 0 => call_args[n.cid] = InitialCalls[n.cid]

\* The assignments lowered without an error.
LoweredAssignments == {j \in 1..Len(Lowered) : program[j].class = "BinOp"}

\* C24 (as stated): an assignment that embeds a call to a procedure outside
\* {sqrt, exp, pow, min, max, abs, tanh} gets no compute unit of its own and
\* is lowered as the call with the target as last argument; an assignment
\* with no call or with a call to one of those becomes exactly one compute
\* unit.
C24_CallOutsideTheSetIsLowered ==
    \A j \in LoweredAssignments :
        IF program[j].ncalls > 0 /\ program[j].callee \notin math_intrinsics
        THEN LoweredAsCall(j)
        ELSE LoweredAsUnit(j)

\* C24 (amended): an assignment that embeds exactly one call, to a procedure
\* outside {sqrt, exp, pow, max, min, abs, tanh, __dace_epsilon}, gets no
\* compute unit of its own and is lowered as the call with the target as
\* last argument; every other assignment (no call, several calls, or one
\* call to a procedure of that set) becomes exactly one compute unit.
C24_SingleCallOutsideTheSetIsLowered ==
    \A j \in LoweredAssignments :
        IF /\ program[j].ncalls = 1
           /\ program[j].callee \notin (math_intrinsics \cup {"__dace_epsilon"})
        THEN LoweredAsCall(j)
        ELSE LoweredAsUnit(j)

\* C24 witness: t = f(s) was lowered into a nested graph of f, and
\* t = __dace_epsilon(s) into a compute unit of its own.
C24_CallAndUnitLowered ==
    /\ \E j \in LoweredAssignments :
           /\ program[j].callee = "f" /\ program[j].ncalls = 1
           /\ \E k \in Nsdfgs : sdfgs[TopGraph.nodes[k].sdfg].name = "f"
    /\ \E j \in LoweredAssignments :
           /\ program[j].callee = "__dace_epsilon"
           /\ UnitsOf(j, "_state_l") # {}

\* The statements lowered without an error that call2sdfg lowered: the calls,
\* and the assignments binop2sdfg handed over as calls.
LoweredCalls ==
    {j \in 1..Len(Lowered) :
        \/ program[j].class = "Call"
        \/ /\ program[j].class = "BinOp"
           /\ program[j].ncalls = 1
           /\ program[j].callee \notin intrinsics}

\* The lowered calls of known procedures.
KnownCalls == {j \in LoweredCalls : program[j].callee \in functions_and_subroutines(Translator)}

\* C25: every call lowered by call2sdfg adds exactly one node to the caller
\* graph: a nested-graph invocation when the callee is a known procedure,
\* else one compute unit; no call adds nothing.  Stated of the programs
\* lowered without an error.
C25_EveryCallAddsOneNode ==
    raised = "" =>
        /\ Cardinality(Nsdfgs) = Cardinality(KnownCalls)
        /\ \A j \in LoweredCalls \ KnownCalls : Cardinality(UnitsOf(j, "_state")) = 1

\* The nested graphs.
NestedGraphs == 2..Len(sdfgs)

\* The compute units of the graph g written from the line of a procedure's
\* head (the assignments of literals and symbols to formals) and from the
\* lines of its body.
InjectedUnits(g) ==
    {k \in 1..Len(sdfgs[g].nodes) :
        sdfgs[g].nodes[k].kind = "tasklet" /\ sdfgs[g].nodes[k].line = proc_add.line}

BodyUnits(g) ==
    {k \in 1..Len(sdfgs[g].nodes) : sdfgs[g].nodes[k].line > proc_add.line}

\* The nested graph g is built in the order of subroutine2sdfg: when
\* anything was lowered into it, its invocation node stands in a graph
\* created before it; its injected assignments write containers its
\* declarations created, and stand before everything lowered from the body.
BuiltInOrder(g) ==
    /\ sdfgs[g].states # <<>> =>
           \E h \in 1..(g - 1) : \E k \in 1..Len(sdfgs[h].nodes) :
               sdfgs[h].nodes[k].kind = "nsdfg" /\ sdfgs[h].nodes[k].sdfg = g
    /\ \A a \in InjectedUnits(g) :
           /\ Len(sdfgs[g].nodes[a].outs) = 1
           /\ \A b \in BodyUnits(g) : a < b /\ sdfgs[g].nodes[a].state < sdfgs[g].nodes[b].state

\* C27: the steps of one call are taken in the order classification,
\* binding, invocation node and edges, declarations of the callee, injected
\* assignments, body of the callee; once a statement is lowered, no step of
\* a later statement changes a nested graph that exists.
C27_NestedGraphBuiltInOrderThenFrozen ==
    [][/\ \A g \in NestedGraphs : g <= Len(sdfgs') /\ sdfgs'[g] = sdfgs[g]
       /\ \A g \in 2..Len(sdfgs') : BuiltInOrder(g)']_vars

\* C27 witness: two calls were lowered without an error, and the nested
\* graph of the first holds an injected assignment and a body.
C27_InjectedThenBodyThenNextCall ==
    /\ raised = ""
    /\ Len(sdfgs) >= 3
    /\ InjectedUnits(2) # {}
    /\ BodyUnits(2) # {}

\* The graphs g and h keep their constant table and container list in one
\* and the same Context: the one found under the name of both.
ShareContext(g, h) ==
    /\ sdfgs[g].name = sdfgs[h].name
    /\ sdfgs[g].name \in Keys(contexts)

\* C28: two distinct graphs, the nested graphs of two calls to one procedure
\* among them, never share a constant table or a container list.
C28_ContextsArePrivate ==
    \A g, h \in 1..Len(sdfgs) : g # h => ~ShareContext(g, h)

\* The statement a step lowers, when it lowers one.
Appended == program'[Len(program')]

\* The entries of the worklist l with the name n.
WorklistEntries(l, n) == {k \in 1..Len(l) : l[k].name = n}

\* C29: a pointer assignment p => t with t bound in the graph leaves p and t
\* mapped to the same container name and no entry named p in the worklist of
\* unallocated arrays, however many it held; with t not bound it raises an
\* error and leaves the name mapping and the worklist as they were.
C29_PointerTakesTargetAndLeavesWorklist ==
    [][(Len(program') = Len(program) + 1 /\ Appended.class = "Pointer") =>
          IF Appended.target \in Keys(name_mapping[globalsdfg])
          THEN /\ raised' = ""
               /\ Get(name_mapping'[globalsdfg], Appended.name, NoName)
                     = Get(name_mapping'[globalsdfg], Appended.target, NoName)
               /\ WorklistEntries(unallocated_arrays', Appended.name) = {}
          ELSE /\ raised' # ""
               /\ name_mapping' = name_mapping
               /\ unallocated_arrays' = unallocated_arrays]_vars

\* The graph that holds the invocation node of the nested graph g; a nested
\* graph whose call failed before its node was made was called from the
\* top-level graph.
Caller(g) ==
    LET holds(h) == \E k \in 1..Len(sdfgs[h].nodes) :
                        sdfgs[h].nodes[k].kind = "nsdfg" /\ sdfgs[h].nodes[k].sdfg = g
    IN IF \E h \in 1..Len(sdfgs) : holds(h)
       THEN CHOOSE h \in 1..Len(sdfgs) : holds(h)
       ELSE globalsdfg

\* The module-level variables the procedure of the nested graph g reads or
\* writes without receiving them as arguments.
ModuleNamesOf(g) ==
    LET def == find_definition(Translator, sdfgs[g].name)
        used == used_names(def, Translator)
    IN {n \in {used.read[i] : i \in 1..Len(used.read)}
                 \cup {used.write[i] : i \in 1..Len(used.write)} :
           /\ Member(module_vars, n)
           /\ ~Member(def.args, n)}

\* The container of the name n in the graph enclosing g: the calling graph's
\* when that graph binds n, else the top-level graph's.
EnclosingContainer(g, n) ==
    IF n \in Keys(name_mapping[Caller(g)])
    THEN array_of(Translator, Caller(g), Get(name_mapping[Caller(g)], n, NoName))
    ELSE array_of(Translator, globalsdfg, Get(name_mapping[globalsdfg], n, NoName))

\* C30: every module-level variable a callee reads or writes without
\* receiving it is declared in the nested graph with the element type, the
\* shape, the strides and the offset of its container in the enclosing graph,
\* whether it is read or only written.
C30_ModuleVariableDeclaredAsItsContainer ==
    \A g \in NestedGraphs : \A n \in ModuleNamesOf(g) :
        /\ n \in Keys(name_mapping[g])
        /\ LET d == array_of(Translator, g, Get(name_mapping[g], n, NoName))
               e == EnclosingContainer(g, n)
           IN /\ d.dtype = e.dtype
              /\ d.shape = e.shape
              /\ d.strides = e.strides
              /\ d.offset = e.offset

====
